---- MODULE Spec2Model ----
(***************************************************************************)
(* State-machine model of ShopifySyncOptimized (the batch synchronization  *)
(* engine): constructor, retrying request executor, rate limiter, paged    *)
(* and batched fetches, chunked processing, bulk upserts, cost cache.      *)
(*                                                                         *)
(* JavaScript values are modelled as follows.                              *)
(*   - an omitted (undefined) or zero numeric option is 0: both are falsy  *)
(*     under the constructor's `||`;                                       *)
(*   - a string that the code later uses as a number (the two halves of    *)
(*     the call-limit header, the retry-after header) is the record        *)
(*     [t |-> "string", v |-> n]; a number is [t |-> "number", v |-> n];    *)
(*   - null / undefined object references are the string "null";           *)
(*   - time is in milliseconds, Date.now() is the variable now.            *)
(* One flow of control is modelled: a step is the code that runs between   *)
(* two suspensions (await) of that flow. Of the PerformanceMonitor the     *)
(* running timers are modelled; its counters, finished-timer history and   *)
(* memory snapshots, and the logger, are write-only and are left out.      *)
(***************************************************************************)
EXTENDS Integers, Sequences, FiniteSets, TLC

\* ------------------------------------------------------------------ bounds
MaxSyncs == 1        \* sync calls made on one engine instance in a run
MaxExecutes == 1     \* direct calls of _executeGraphQLWithRetry in a run
MaxSessionSyncs == 2 \* sync calls in a run that mixes syncs, cost lookups and resets
MaxLookups == 2      \* cost lookups in a run
MaxResets == 1       \* reset calls in a run
MaxTicks == 1        \* times the clock is advanced between calls in a run
MaxChunkCalls == 1   \* direct calls of _chunkArray in a run
MaxMemoryChecks == 1 \* direct calls of _manageMemory in a run
MaxCacheSets == 2    \* entries a client puts into the engine's caches in a run
MaxRelationCalls == 2 \* calls of Product.createProductCategoryRelationship in a run
MaxLimitCalls == 2   \* direct calls of _enforceRateLimit in a run
MaxHeaderCalls == 2  \* direct calls of _updateRateLimitFromHeaders in a run
MaxProcessCalls == 1 \* direct calls of _processProductsInChunks / _processVariantsInChunks in a run
MaxRecords == 3      \* most records handed to such a call
MaxCreateCalls == 2  \* calls of Product.create in a run
MaxUpdateCalls == 1  \* calls of Product.update in a run
MaxStoreCalls == 1   \* direct calls of MockDatabase.createProduct in a run
MaxFindCalls == 1    \* calls of Product.findById in a run
MaxUpsertCalls == 2  \* direct calls of ShopifyService.upsertMainProductOptimized in a run
MaxBatchCalls == 1   \* calls of ShopifyService.batchSync in a run
MaxBatchProducts == 3 \* most products handed to batchSync
MaxBatchSize == 2    \* largest batchSize option handed to batchSync
MaxBatchRetries == 2 \* largest maxRetries option handed to batchSync
MaxOverlap == 2      \* sync invocations that overlap on one engine instance
MaxOverlapMs == 2    \* milliseconds that pass while invocations overlap
MaxRemoteCalls == 6  \* requests the remote API serves in a run
MaxPages == 2        \* pages the remote listing serves before hasNextPage = false
MaxArrayLen == 5     \* longest array handed to _chunkArray directly
MaxChunkSize == 3    \* largest chunk size handed to _chunkArray directly

\* ------------------------------------------------------- program constants
DefaultBatchSize == 250
DefaultMaxRetries == 3
DefaultBaseDelayMs == 1000
DefaultMaxDelayMs == 30000
DefaultMemoryThreshold == 500 * 1024 * 1024
DefaultChunkSize == 100
InitialRemaining == 40
InitialBucketSize == 40
InitialResetWindowMs == 1000
NsPerMs == 1000000       \* Number(endTime - startTime) / 1000000
MinElapsedNs == 1        \* least time process.hrtime.bigint() advances between two reads

\* ------------------------------------------------------------ JS helpers
Min(a, b) == IF a <= b THEN a ELSE b

RECURSIVE Pow2(_)
Pow2(n) == IF n <= 0 THEN 1 ELSE 2 * Pow2(n - 1)

Num(n) == [t |-> "number", v |-> n]
Str(n) == [t |-> "string", v |-> n]
ToNumber(x) == x.v

\* a || b on numbers: 0 (and undefined, modelled as 0) is falsy
OrDefault(a, d) == IF a = 0 THEN d ELSE a

ConfigKeys ==
  {"batchSize", "maxRetries", "baseDelayMs", "maxDelayMs", "memoryThreshold", "chunkSize"}

NoOverride == [k \in {} |-> 0]

\* the calls a client makes on an engine instance, and how many a run may hold
OpKinds == {"sync", "execute", "cost", "reset", "tick", "chunk", "memory", "cacheSet",
            "relate", "limit", "headers", "process", "batch", "upsert",
            "create", "update", "store", "find"}

Budget(kind) ==
  CASE kind = "sync" -> MaxSyncs
    [] kind = "execute" -> MaxExecutes
    [] kind = "cost" -> MaxLookups
    [] kind = "reset" -> MaxResets
    [] kind = "tick" -> MaxTicks
    [] kind = "chunk" -> MaxChunkCalls
    [] kind = "memory" -> MaxMemoryChecks
    [] kind = "cacheSet" -> MaxCacheSets
    [] kind = "relate" -> MaxRelationCalls
    [] kind = "limit" -> MaxLimitCalls
    [] kind = "headers" -> MaxHeaderCalls
    [] kind = "process" -> MaxProcessCalls
    [] kind = "batch" -> MaxBatchCalls
    [] kind = "upsert" -> MaxUpsertCalls
    [] kind = "create" -> MaxCreateCalls
    [] kind = "update" -> MaxUpdateCalls
    [] kind = "store" -> MaxStoreCalls
    [] kind = "find" -> MaxFindCalls

\* ------------------------------------------------------------- variables
VARIABLES
  config,          \* this.config
  rateLimitState,  \* this.rateLimitState
  metrics,         \* this.metrics
  configCache, productCache, variantCache,   \* Maps never written by the engine: key sets
  costCache,       \* this.costCache: cache key -> cost data
  timers,          \* this.performance.timers: timer name -> start time
  now,             \* Date.now()
  pc,              \* where the flow of control is suspended
  frame,           \* locals of the running top-level call
  req,             \* locals of the running _executeGraphQLWithRetry call
  result,          \* how the last top-level call ended
  remote,          \* the remote API as the engine's peer: what it was sent, how often
  sink,            \* the persistence sink: calls received, records held
  ops,             \* top-level calls the client may still make, by kind
  kept,            \* the result of the last completed sync, as its caller holds it
  db               \* the model layer's database (models/database): its Maps, ids given out

vars == <<config, rateLimitState, metrics, configCache, productCache, variantCache,
          costCache, timers, now, pc, frame, req, result, remote, sink, ops, kept, db>>

cacheVars == <<configCache, productCache, variantCache, costCache>>

\* ------------------------------------------------------------ constructor
\* this.config = { batchSize: options.batchSize || 250, ..., ...options.config }
ConstructorConfig(options) ==
  LET base == [batchSize       |-> OrDefault(options.batchSize, DefaultBatchSize),
               maxRetries      |-> OrDefault(options.maxRetries, DefaultMaxRetries),
               baseDelayMs     |-> OrDefault(options.baseDelayMs, DefaultBaseDelayMs),
               maxDelayMs      |-> OrDefault(options.maxDelayMs, DefaultMaxDelayMs),
               memoryThreshold |-> OrDefault(options.memoryThreshold, DefaultMemoryThreshold),
               chunkSize       |-> OrDefault(options.chunkSize, DefaultChunkSize)]
  IN [k \in ConfigKeys |->
        IF k \in DOMAIN options.config THEN options.config[k] ELSE base[k]]

InitialRateLimitState(t) ==
  [remaining |-> InitialRemaining,
   resetTime |-> t + InitialResetWindowMs,
   bucketSize |-> Num(InitialBucketSize)]

ZeroMetrics ==
  [totalProducts |-> 0, totalVariants |-> 0, apiCalls |-> 0, dbQueries |-> 0,
   errors |-> 0, cacheHits |-> 0, cacheMisses |-> 0]

EmptyMap == [k \in {} |-> 0]

NoFrame == [op |-> "none"]
NoReq == [query |-> [name |-> "none"], status |-> "none"]
NoResult == [status |-> "none", op |-> "none"]
NewRemote == [calls |-> 0, sinceReset |-> 0, last |-> [query |-> [name |-> "none"]]]
NewSink == [calls |-> 0, products |-> <<>>, variants |-> <<>>]

\* MockDatabase after reset(): no product-category relationships
\* and no row in the products table behind Models.Product
NewDb == [productCategories |-> EmptyMap, uuids |-> 0, table |-> EmptyMap,
          products |-> EmptyMap]

\* the caller holds no result yet
NoKept == [has |-> FALSE]

Constructed(options) ==
  /\ config = ConstructorConfig(options)
  /\ now = 0
  /\ rateLimitState = InitialRateLimitState(0)
  /\ metrics = ZeroMetrics
  /\ configCache = {}
  /\ productCache = {}
  /\ variantCache = {}
  /\ costCache = EmptyMap
  /\ timers = EmptyMap
  /\ pc = "idle"
  /\ frame = NoFrame
  /\ req = NoReq
  /\ result = NoResult
  /\ remote = NewRemote
  /\ sink = NewSink
  /\ kept = NoKept
  /\ db = NewDb

Options(b, r, bd, md, c) ==
  [batchSize |-> b, maxRetries |-> r, baseDelayMs |-> bd, maxDelayMs |-> md,
   memoryThreshold |-> 0, chunkSize |-> c, config |-> NoOverride]

\* the calls of a run that makes calls of these kinds only
Plan(kinds) == [k \in OpKinds |-> IF k \in kinds THEN Budget(k) ELSE 0]

\* a client makes one more call of this kind
Called(kind) ==
  /\ pc = "idle"
  /\ ops[kind] > 0
  /\ ops' = [ops EXCEPT ![kind] = @ - 1]

\* ---------------------------------------------------- PerformanceMonitor
startTimer(tm, name, t) == (name :> t) @@ tm

endTimer(tm, name) == [k \in (DOMAIN tm) \ {name} |-> tm[k]]

\* faulty variant: the monitor is disabled, endTimer returns null
endTimerDisabled(tm, name, t) == [found |-> FALSE, duration |-> 0]

\* the value endTimer returns: null when no such timer is running; else the
\* difference of two readings of the monotonic nanosecond clock, the later one
\* taken after the time the engine slept and after the code in between ran.
\* duration is held in nanoseconds: the code divides it by 1000000
endTimerResult(tm, name, t) ==
  IF name \in DOMAIN tm
  THEN [found |-> TRUE, duration |-> ((t - tm[name]) * NsPerMs) + MinElapsedNs]
  ELSE [found |-> FALSE, duration |-> 0]

\* ------------------------------------------------------------ rate limiter
\* faulty variant: the gate closes only when no capacity is left at all
RateLimitWaitAtZero(rl, t) ==
  IF rl.remaining <= 0 /\ t < rl.resetTime THEN rl.resetTime - t ELSE 0

\* _enforceRateLimit: the time it sleeps (0: it does not sleep)
RateLimitWait(rl, t) ==
  IF rl.remaining <= 1 /\ t < rl.resetTime THEN rl.resetTime - t ELSE 0

\* Response headers. hasLimit: 'x-shopify-shop-api-call-limit' is present, its
\* text is "<current>/<max>"; hasRetryAfter: 'retry-after' is present.
Headers(hasLimit, current, max, hasRetryAfter, retryAfter) ==
  [hasLimit |-> hasLimit, current |-> current, max |-> max,
   hasRetryAfter |-> hasRetryAfter, retryAfter |-> retryAfter]

\* faulty variant: the halves in the wrong order
SplitSwapped(headers) == <<Str(headers.max), Str(headers.current)>>

\* header.split('/'): the two halves, as strings
SplitCallLimit(headers) == <<Str(headers.current), Str(headers.max)>>

\* faulty variant: a response without retry-after opens a new window
UpdateOpeningWindow(rl, headers, t) ==
  [rl EXCEPT !.remaining = IF headers.hasLimit THEN headers.max - headers.current ELSE @,
             !.bucketSize = IF headers.hasLimit THEN Str(headers.max) ELSE @,
             !.resetTime = t + (IF headers.hasRetryAfter THEN headers.retryAfter * 1000
                                ELSE InitialResetWindowMs)]

_updateRateLimitFromHeaders(rl, headers, t) ==
  LET parts == SplitCallLimit(headers)
      current == parts[1]
      max == parts[2]
      rl1 == IF headers.hasLimit
             THEN [rl EXCEPT !.remaining = ToNumber(max) - ToNumber(current),
                             !.bucketSize = max]
             ELSE rl
  IN IF headers.hasRetryAfter
     THEN [rl1 EXCEPT !.resetTime = t + (ToNumber(Str(headers.retryAfter)) * 1000)]
     ELSE rl1

\* ------------------------------------------------- the remote API's answers
EmptyData == [kind |-> "empty"]

ThrowOutcome(msg) == [kind |-> "throw", error |-> [message |-> msg]]

ResponseOutcome(hasHeaders, headers, errors, data) ==
  [kind |-> "response", hasHeaders |-> hasHeaders, headers |-> headers,
   errors |-> errors, data |-> data]

NoHeaders == Headers(FALSE, 0, 0, FALSE, 0)

\* new Error(`GraphQL errors: ${JSON.stringify(response.errors)}`)
GraphQLError(errors) == [message |-> "GraphQL errors: " \o errors[1]]

\* ------------------------------------------ _executeGraphQLWithRetry (454-499)
\* faulty variant: the exponential delay without its cap
UncappedDelay(attempt, cfg) == cfg.baseDelayMs * Pow2(attempt - 1)

\* Math.min(baseDelayMs * Math.pow(2, attempt - 1), maxDelayMs)
BackoffDelay(attempt, cfg) ==
  Min(cfg.baseDelayMs * Pow2(attempt - 1), cfg.maxDelayMs)

\* faulty variant: the loop is left one attempt early
IsLastAttemptEarly(attempt, cfg) == attempt + 1 = cfg.maxRetries

\* if (attempt === this.config.maxRetries) break;
IsLastAttempt(attempt, cfg) == attempt = cfg.maxRetries

\* for (...; attempt <= this.config.maxRetries; ...)
LoopContinues(attempt, cfg) == attempt <= cfg.maxRetries

\* faulty variant: a failed attempt is not counted
KeepErrors(m) == m

\* this.metrics.errors++ in the catch of one attempt
CountFailedAttempt(m) == [m EXCEPT !.errors = @ + 1]

\* faulty variant: the error of the attempt before the last is thrown
StaleError(lastError, thisError) == lastError

\* the error the executor throws once the loop is left: lastError
ThrownError(lastError, thisError) == thisError

\* _sleep(ms) at time t: setTimeout fires at once for a delay that is not positive
_sleep(t, ms) == IF ms > 0 THEN t + ms ELSE t

\* faulty variant: the errors list of a response is not looked at
ErrorsIgnored(outcome) == FALSE

\* if (response.errors && response.errors.length > 0) throw ...
HasGraphQLErrors(outcome) == Len(outcome.errors) > 0

NewReq(query, variables) ==
  [query |-> query, variables |-> variables, attempt |-> 1, status |-> "pending",
   response |-> EmptyData, lastError |-> [message |-> "undefined"],
   log |-> <<>>, delays |-> <<>>,
   startErrors |-> metrics.errors, startCalls |-> remote.calls]

\* One iteration of the retry loop: the rate-limit gate, the remote call, and
\* either the return, the break or the backoff sleep.
Attempt(outcome) ==
  /\ pc = "request"
  /\ remote.calls < MaxRemoteCalls
  /\ IF ~LoopContinues(req.attempt, config)
     THEN /\ req' = [req EXCEPT !.status = "failed"]
          /\ pc' = "resume"
          /\ UNCHANGED <<rateLimitState, metrics, now, remote>>
     ELSE LET t == now + RateLimitWait(rateLimitState, now)
              isResp == outcome.kind = "response"
              failed == IF isResp THEN HasGraphQLErrors(outcome) ELSE TRUE
              error == IF isResp THEN GraphQLError(outcome.errors) ELSE outcome.error
              log1 == Append(req.log, outcome)
          IN /\ remote' = [calls |-> remote.calls + 1,
                           sinceReset |-> remote.sinceReset + 1,
                           last |-> [query |-> req.query, variables |-> req.variables]]
             /\ rateLimitState' =
                  IF isResp /\ outcome.hasHeaders
                  THEN _updateRateLimitFromHeaders(rateLimitState, outcome.headers, t)
                  ELSE rateLimitState
             /\ IF ~failed
                THEN /\ req' = [req EXCEPT !.status = "ok", !.response = outcome,
                                           !.log = log1]
                     /\ metrics' = metrics
                     /\ now' = t
                     /\ pc' = "resume"
                ELSE /\ metrics' = CountFailedAttempt(metrics)
                     /\ IF IsLastAttempt(req.attempt, config)
                        THEN /\ req' = [req EXCEPT
                                          !.status = "failed",
                                          !.lastError = ThrownError(req.lastError, error),
                                          !.log = log1]
                             /\ now' = t
                             /\ pc' = "resume"
                        ELSE /\ req' = [req EXCEPT
                                          !.attempt = @ + 1,
                                          !.lastError = error,
                                          !.log = log1,
                                          !.delays = Append(@, BackoffDelay(req.attempt, config))]
                             /\ now' = _sleep(t, BackoffDelay(req.attempt, config))
                             /\ pc' = "request"
  /\ UNCHANGED <<config, kept, db, cacheVars, timers, frame, result, sink, ops>>

\* --------------------------------------------------------------- _chunkArray
\* faulty variant: the whole array as one chunk
OneChunk(array, chunkSize) == IF array = <<>> THEN <<>> ELSE <<array>>

\* for (let i = 0; i < array.length; i += chunkSize) chunks.push(array.slice(i, i + chunkSize))
ChunkLoopTest(i, array) == i < Len(array)

\* faulty variant: a slice that stops one element early
SliceShort(array, from, to) == SubSeq(array, from + 1, Min(to, Len(array)) - 1)

Slice(array, from, to) == SubSeq(array, from + 1, Min(to, Len(array)))

RECURSIVE ChunkLoop(_, _, _, _)
ChunkLoop(array, chunkSize, i, chunks) ==
  IF ChunkLoopTest(i, array)
  THEN ChunkLoop(array, chunkSize, i + chunkSize,
                 Append(chunks, Slice(array, i, i + chunkSize)))
  ELSE chunks

_chunkArray(array, chunkSize) == ChunkLoop(array, chunkSize, 0, <<>>)

\* ------------------------------------------------------------ sequences
RECURSIVE Flatten(_)
Flatten(ss) == IF ss = <<>> THEN <<>> ELSE Head(ss) \o Flatten(Tail(ss))

\* ------------------------------------------------------------ remote data
ProductNode(id) == [id |-> id, productType |-> "type"]
Edge(id) == [node |-> ProductNode(id), cursor |-> "cursor_" \o id]
Edges(ids) == [i \in 1..Len(ids) |-> Edge(ids[i])]

VariantNode(id, hasCompareAt) ==
  [id |-> id, price |-> Str(10), hasCompareAtPrice |-> hasCompareAt,
   compareAtPrice |-> Str(15)]
VariantEdge(productId, variantNodes) ==
  [node |-> [id |-> productId, variants |-> variantNodes]]

ProductsData(edges, hasNextPage) ==
  [kind |-> "products", edges |-> edges, hasNextPage |-> hasNextPage]
VariantsData(edges) == [kind |-> "variants", edges |-> edges]
SingleProductData(hasProduct, id) ==
  [kind |-> "product", hasProduct |-> hasProduct, product |-> ProductNode(id)]
CostData(entries) == [kind |-> "cost", entries |-> entries]

\* ------------------------------------------------------------ query builders
_buildProductQuery(cursor, cfg) == [name |-> "getProducts", first |-> cfg.batchSize]
_buildVariantBatchQuery(productIds) ==
  [name |-> "getVariantsBatch", first |-> Len(productIds), filter |-> productIds]
_buildCostQuery(productIds) ==
  [name |-> "getCostData", first |-> Len(productIds), filter |-> productIds]
_buildUpdatedProductsQuery(since, limit) ==
  [name |-> "getUpdatedProducts", since |-> since]
_buildSingleProductQuery(productId) == [name |-> "getProduct"]

\* ------------------------------------------------------------ extraction
\* response.data.products.edges.map(edge => edge.node)
PageNodes(data) == [i \in 1..Len(data.edges) |-> data.edges[i].node]

\* reading response.data.products.edges / .pageInfo throws a TypeError when the
\* response has no products, and edges[length - 1].cursor does when hasNextPage
\* is true on an empty page
PageThrows(data) ==
  \/ data.kind # "products"
  \/ (data.hasNextPage /\ Len(data.edges) = 0)

NextCursor(data) ==
  IF data.hasNextPage THEN data.edges[Len(data.edges)].cursor ELSE "null"

\* while (cursor): null and the empty string end the loop
Truthy(cursor) == cursor # "null" /\ cursor # ""

VariantsOfEdge(edge) ==
  [j \in 1..Len(edge.node.variants) |->
     [id |-> edge.node.variants[j].id,
      price |-> edge.node.variants[j].price,
      hasCompareAtPrice |-> edge.node.variants[j].hasCompareAtPrice,
      compareAtPrice |-> edge.node.variants[j].compareAtPrice,
      productId |-> edge.node.id]]

_extractVariantsFromResponse(data) ==
  IF data.kind = "variants"
  THEN Flatten([i \in 1..Len(data.edges) |-> VariantsOfEdge(data.edges[i])])
  ELSE <<>>

_extractProductsFromResponse(data) ==
  IF data.kind = "products" THEN PageNodes(data) ELSE <<>>

\* response.data ? response.data.product : null
_extractSingleProductFromResponse(data) ==
  IF data.kind = "product" /\ data.hasProduct
  THEN [isNull |-> FALSE, value |-> data.product]
  ELSE [isNull |-> TRUE, value |-> ProductNode("null")]

\* ------------------------------------------------------------ processing
ProcessProduct(product) == [id |-> product.id, product_type |-> product.productType]

ProcessVariant(variant) ==
  [id |-> variant.id,
   product_id |-> variant.productId,
   price |-> Num(ToNumber(variant.price)),
   compare_at_price |->
     IF variant.hasCompareAtPrice
     THEN [isNull |-> FALSE, value |-> Num(ToNumber(variant.compareAtPrice))]
     ELSE [isNull |-> TRUE, value |-> Num(0)]]

\* faulty variant: only the first record of a chunk is transformed
FirstOfChunk(products) ==
  IF products = <<>> THEN <<>> ELSE <<ProcessProduct(products[1])>>

_processProductChunk(products) == [i \in 1..Len(products) |-> ProcessProduct(products[i])]

_processVariantChunk(variants) == [i \in 1..Len(variants) |-> ProcessVariant(variants[i])]

\* faulty variant: only the first chunk is kept
FirstChunkProcessed(chunks) ==
  IF chunks = <<>> THEN <<>> ELSE _processProductChunk(chunks[1])

\* processed.push(...processedChunk) over the chunks, in order
ProcessedProductChunks(chunks) ==
  Flatten([i \in 1..Len(chunks) |-> _processProductChunk(chunks[i])])

ProcessedVariantChunks(chunks) ==
  Flatten([i \in 1..Len(chunks) |-> _processVariantChunk(chunks[i])])

_processProductsInChunks(products, cfg) ==
  ProcessedProductChunks(_chunkArray(products, cfg.chunkSize))

_processVariantsInChunks(variants, cfg) ==
  ProcessedVariantChunks(_chunkArray(variants, cfg.chunkSize))

\* ------------------------------------------------------------ cost cache
\* the identifiers in the order of Array.prototype.sort(): by UTF-16 code units
IdOrder == <<"p1", "p10", "p2">>

Rank(id) == CHOOSE i \in 1..Len(IdOrder) : IdOrder[i] = id

InsertSorted(x, t) ==
  LET k == Cardinality({i \in 1..Len(t) : Rank(t[i]) <= Rank(x)})
  IN SubSeq(t, 1, k) \o <<x>> \o SubSeq(t, k + 1, Len(t))

RECURSIVE SortIds(_)
SortIds(s) == IF s = <<>> THEN <<>> ELSE InsertSorted(Head(s), SortIds(Tail(s)))

RECURSIVE Join(_, _)
Join(s, sep) ==
  IF s = <<>> THEN ""
  ELSE IF Len(s) = 1 THEN s[1] ELSE s[1] \o sep \o Join(Tail(s), sep)

\* faulty variant: the key is built without sorting
UnsortedKey(productIds) == Join(productIds, ",")

\* const cacheKey = productIds.sort().join(',')
CacheKey(productIds) == Join(SortIds(productIds), ",")

\* costData.set(variant.id, parseFloat(unitCost.amount)) for the variants that have a unit cost
_extractCostDataFromResponse(data) ==
  IF data.kind = "cost"
  THEN LET withCost == {i \in 1..Len(data.entries) : data.entries[i].hasUnitCost}
           lastOf(id) == CHOOSE i \in withCost :
                           /\ data.entries[i].id = id
                           /\ \A j \in withCost : data.entries[j].id = id => j <= i
       IN [id \in {data.entries[i].id : i \in withCost} |->
             Num(ToNumber(data.entries[lastOf(id)].amount))]
  ELSE EmptyMap

\* ------------------------------------------------------------ memory guard
\* _manageMemory run n times, of which `high` saw heapUsed > memoryThreshold;
\* each of those runs _clearCaches
CachesAfterChecks(high, cache, empty) == IF high > 0 THEN empty ELSE cache

MemoryChecks(high) ==
  /\ productCache' = CachesAfterChecks(high, productCache, {})
  /\ variantCache' = CachesAfterChecks(high, variantCache, {})
  /\ costCache' = CachesAfterChecks(high, costCache, EmptyMap)
  /\ UNCHANGED configCache

\* ------------------------------------------------------------------- sync
\* const syncId = `sync_${Date.now()}`
SyncId(t) == "sync_" \o ToString(t)

SyncFrame(syncType, syncId, options) ==
  [op |-> "sync", syncType |-> syncType, syncId |-> syncId, options |-> options,
   products |-> <<>>, cursor |-> "null", pageCount |-> 0,
   product |-> _extractSingleProductFromResponse(EmptyData),
   chunks |-> <<>>, variants |-> <<>>, variantIds |-> <<>>, batches |-> <<>>,
   productBatch |-> <<>>, variantBatch |-> <<>>,
   startErrors |-> metrics.errors, startCalls |-> remote.calls,
   startSinkCalls |-> sink.calls, fetchedProducts |-> 0, fetchedVariants |-> 0,
   failedAttempts |-> 0, activeTimers |-> Cardinality(DOMAIN timers)]

\* what a finished call keeps of its frame: the observations, not the locals
Trace(fr) ==
  [startErrors |-> fr.startErrors, startCalls |-> fr.startCalls,
   startSinkCalls |-> fr.startSinkCalls, fetchedProducts |-> fr.fetchedProducts,
   fetchedVariants |-> fr.fetchedVariants, failedAttempts |-> fr.failedAttempts,
   activeTimers |-> fr.activeTimers]

\* this.metrics.errors++ in the catch of sync
CountSyncError(m) == [m EXCEPT !.errors = @ + 1]

\* this.metrics.apiCalls++ after a logical request of a fetch loop has returned
CountApiCall(m) == [m EXCEPT !.apiCalls = @ + 1]

\* faulty variant: the catch throws a new error that wraps the one it caught
FailSyncWrapped(m, tm, error) ==
  /\ metrics' = [m EXCEPT !.errors = @ + 1]
  /\ timers' = [k \in (DOMAIN tm) \ {frame.syncId} |-> tm[k]]
  /\ result' = [status |-> "thrown", op |-> "sync", syncType |-> frame.syncType,
                error |-> [message |-> "Sync failed: " \o error.message],
                trace |-> Trace(frame)]
  /\ pc' = "idle"
  /\ frame' = NoFrame
  /\ req' = NoReq
  /\ UNCHANGED now

\* the catch of sync (102-107): count, end the sync timer, rethrow
FailSync(m, tm, error) ==
  /\ metrics' = CountSyncError(m)
  /\ timers' = endTimer(tm, frame.syncId)
  /\ result' = [status |-> "thrown", op |-> "sync", syncType |-> frame.syncType,
                error |-> error, trace |-> Trace(frame)]
  /\ pc' = "idle"
  /\ frame' = NoFrame
  /\ req' = NoReq
  /\ UNCHANGED now

\* faulty variant: the switch has no default case
AnySyncType(syncType) == TRUE

IsSyncType(syncType) == syncType \in {"full", "partial", "single"}

\* sync(syncType, options) up to its first suspension (59-80)
sync(syncType, options) ==
  /\ Called("sync")
  /\ LET syncId == SyncId(now)
         tm == startTimer(timers, syncId, now)
         fr == SyncFrame(syncType, syncId, options)
     IN IF ~IsSyncType(syncType)
        THEN /\ metrics' = CountSyncError(metrics)
             /\ timers' = endTimer(tm, syncId)
             /\ result' = [status |-> "thrown", op |-> "sync", syncType |-> syncType,
                           error |-> [message |-> "Unknown sync type: " \o syncType],
                           trace |-> Trace(fr)]
             /\ UNCHANGED <<pc, frame, req, now>>
        ELSE /\ result' = NoResult
             /\ frame' = fr
             /\ pc' = "request"
             /\ metrics' = metrics
             /\ IF syncType = "full"
                THEN /\ timers' = startTimer(tm, "fetch_all_products", now)
                     /\ now' = now + RateLimitWait(rateLimitState, now)
                     /\ req' = NewReq(_buildProductQuery("null", config), EmptyMap)
                ELSE /\ timers' = tm
                     /\ now' = now
                     /\ req' = NewReq(IF syncType = "partial"
                                      THEN _buildUpdatedProductsQuery(options.since, options.limit)
                                      ELSE _buildSingleProductQuery(options.productId),
                                      EmptyMap)
  /\ UNCHANGED <<config, kept, db, rateLimitState, cacheVars, remote, sink>>

\* the variant nodes a response of the remote holds
VariantNodeCount(data) ==
  IF data.kind = "variants"
  THEN Len(Flatten([i \in 1..Len(data.edges) |-> data.edges[i].node.variants]))
  ELSE 0

FailedIn(log) == Cardinality({i \in 1..Len(log) : log[i].kind = "throw" \/ Len(log[i].errors) > 0})

\* the frame once a logical request has settled: what the remote did is noted
Noted(fr, nodes, variantNodes) ==
  [fr EXCEPT !.failedAttempts = @ + FailedIn(req.log),
             !.fetchedProducts = @ + nodes,
             !.fetchedVariants = @ + variantNodes]

\* _fetchAllProductsOptimized after a page request has settled (196-229)
ResumeProductsPage(high) ==
  /\ pc = "resume"
  /\ frame.op = "sync"
  /\ req.query.name = "getProducts"
  /\ IF req.status = "failed"
     THEN /\ FailSync(metrics, endTimer(timers, "fetch_all_products"), req.lastError)
          /\ UNCHANGED cacheVars
     ELSE LET data == req.response.data
              m == CountApiCall(metrics)
          IN IF PageThrows(data)
             THEN /\ FailSync(m, endTimer(timers, "fetch_all_products"),
                              [message |-> "TypeError"])
                  /\ UNCHANGED cacheVars
             ELSE LET products == frame.products \o PageNodes(data)
                      cursor == NextCursor(data)
                      fr == [Noted(frame, Len(data.edges), 0) EXCEPT
                               !.products = products, !.cursor = cursor,
                               !.pageCount = @ + 1]
                  IN /\ MemoryChecks(IF high THEN 1 ELSE 0)
                     /\ frame' = fr
                     /\ result' = result
                     /\ IF Truthy(cursor)
                        THEN /\ metrics' = m
                             /\ timers' = timers
                             /\ now' = now + RateLimitWait(rateLimitState, now)
                             /\ req' = NewReq(_buildProductQuery(cursor, config), EmptyMap)
                             /\ pc' = "request"
                        ELSE /\ metrics' = [m EXCEPT !.totalProducts = Len(products)]
                             /\ timers' = endTimer(timers, "fetch_all_products")
                             /\ now' = now
                             /\ req' = NoReq
                             /\ pc' = "fetchVariants"
  /\ UNCHANGED <<config, kept, db, rateLimitState, remote, sink, ops>>

\* _fetchUpdatedProducts after its request has settled (704-709)
ResumeUpdatedProducts ==
  /\ pc = "resume"
  /\ frame.op = "sync"
  /\ req.query.name = "getUpdatedProducts"
  /\ IF req.status = "failed"
     THEN FailSync(metrics, timers, req.lastError)
     ELSE /\ frame' = [Noted(frame, Len(_extractProductsFromResponse(req.response.data)), 0)
                         EXCEPT !.products = _extractProductsFromResponse(req.response.data)]
          /\ req' = NoReq
          /\ pc' = "fetchVariants"
          /\ UNCHANGED <<metrics, timers, result, now>>
  /\ UNCHANGED <<config, kept, db, rateLimitState, cacheVars, remote, sink, ops>>

\* _fetchSingleProduct after its request has settled (711-716)
ResumeSingleProduct ==
  /\ pc = "resume"
  /\ frame.op = "sync"
  /\ req.query.name = "getProduct"
  /\ IF req.status = "failed"
     THEN FailSync(metrics, timers, req.lastError)
     ELSE /\ frame' = [Noted(frame, 0, 0) EXCEPT
                         !.product = _extractSingleProductFromResponse(req.response.data)]
          /\ req' = NoReq
          /\ pc' = "fetchVariants"
          /\ UNCHANGED <<metrics, timers, result, now>>
  /\ UNCHANGED <<config, kept, db, rateLimitState, cacheVars, remote, sink, ops>>

ProductIdsOf(products) == [i \in 1..Len(products) |-> products[i].id]

\* the identifiers whose variants a sync fetches (117/238, 142-143, 166)
VariantFetchIds(fr) ==
  IF fr.syncType = "single" THEN <<fr.options.productId>> ELSE ProductIdsOf(fr.products)

\* faulty variant: the products are handed to the sink before the variants
\* have been fetched
UpsertBeforeVariantFetch ==
  /\ pc = "fetchVariants"
  /\ frame' = [frame EXCEPT !.productBatch = _processProductsInChunks(frame.products, config)]
  /\ pc' = "upsertProducts"
  /\ UNCHANGED <<config, kept, db, rateLimitState, metrics, cacheVars, timers, now, req,
                 result, remote, sink, ops>>

\* _fetchAllVariantsOptimized / _fetchVariantsByProductIds up to the loop (234-252)
StartVariantFetch ==
  /\ pc = "fetchVariants"
  /\ timers' = IF frame.syncType = "full"
               THEN startTimer(timers, "fetch_all_variants", now)
               ELSE timers
  /\ frame' = [frame EXCEPT
                 !.chunks = _chunkArray(VariantFetchIds(frame), config.batchSize),
                 !.variants = <<>>,
                 !.variantIds = VariantFetchIds(frame)]
  /\ pc' = "variantLoop"
  /\ UNCHANGED <<config, kept, db, rateLimitState, metrics, cacheVars, now, req, result,
                 remote, sink, ops>>

\* the head of the for-of loop of _fetchVariantsByProductIds (254-258), and what
\* follows the loop (269, 241-244)
VariantLoop ==
  /\ pc = "variantLoop"
  /\ IF frame.chunks # <<>>
     THEN /\ now' = now + RateLimitWait(rateLimitState, now)
          /\ req' = NewReq(_buildVariantBatchQuery(Head(frame.chunks)), EmptyMap)
          /\ frame' = [frame EXCEPT !.batches = Append(@, req'.query.filter)]
          /\ pc' = "request"
          /\ UNCHANGED <<metrics, timers>>
     ELSE /\ metrics' = IF frame.syncType = "full"
                        THEN [metrics EXCEPT !.totalVariants = Len(frame.variants)]
                        ELSE metrics
          /\ timers' = IF frame.syncType = "full"
                       THEN endTimer(timers, "fetch_all_variants")
                       ELSE timers
          /\ frame' = IF frame.syncType = "single"
                      THEN [frame EXCEPT !.productBatch = <<frame.product>>,
                                         !.variantBatch = frame.variants]
                      ELSE frame
          /\ pc' = IF frame.syncType = "single" THEN "upsertProducts" ELSE "processProducts"
          /\ UNCHANGED <<now, req>>
  /\ UNCHANGED <<config, kept, db, rateLimitState, cacheVars, result, remote, sink, ops>>

\* the body of that loop after the batch request has settled (260-266)
ResumeVariants ==
  /\ pc = "resume"
  /\ frame.op = "sync"
  /\ req.query.name = "getVariantsBatch"
  /\ IF req.status = "failed"
     THEN /\ FailSync(metrics, timers, req.lastError)
     ELSE LET chunkVariants == _extractVariantsFromResponse(req.response.data)
          IN /\ metrics' = CountApiCall(metrics)
             /\ frame' = [Noted(frame, 0, VariantNodeCount(req.response.data)) EXCEPT
                            !.variants = @ \o chunkVariants,
                            !.chunks = Tail(@)]
             /\ req' = NoReq
             /\ pc' = "variantLoop"
             /\ UNCHANGED <<timers, result, now>>
  /\ UNCHANGED <<config, kept, db, rateLimitState, cacheVars, remote, sink, ops>>

\* _processProductsInChunks (275-292); high: how many of the memory checks, one
\* after each chunk, saw the heap above the threshold
ProcessProducts(high) ==
  /\ pc = "processProducts"
  /\ high <= Len(_chunkArray(frame.products, config.chunkSize))
  /\ frame' = [frame EXCEPT !.productBatch = _processProductsInChunks(frame.products, config)]
  /\ timers' = endTimer(startTimer(timers, "process_products", now), "process_products")
  /\ MemoryChecks(high)
  /\ pc' = "processVariants"
  /\ UNCHANGED <<config, kept, db, rateLimitState, metrics, now, req, result, remote, sink, ops>>

\* _processVariantsInChunks (297-314)
ProcessVariants(high) ==
  /\ pc = "processVariants"
  /\ high <= Len(_chunkArray(frame.variants, config.chunkSize))
  /\ frame' = [frame EXCEPT !.variantBatch = _processVariantsInChunks(frame.variants, config)]
  /\ timers' = endTimer(startTimer(timers, "process_variants", now), "process_variants")
  /\ MemoryChecks(high)
  /\ pc' = "upsertProducts"
  /\ UNCHANGED <<config, kept, db, rateLimitState, metrics, now, req, result, remote, sink, ops>>

\* this.metrics.dbQueries++ after bulkCreate has resolved
CountDbQuery(m) == [m EXCEPT !.dbQueries = @ + 1]

\* faulty variant: an empty batch is sent to the sink like any other
NeverSkips(batch) == FALSE

\* if (products.length === 0) return;
SkipsUpsert(batch) == Len(batch) = 0

\* faulty variant: a failed bulkCreate is followed by a call that empties the sink
FailedCreateCompensated(s) == [calls |-> s.calls + 2, products |-> <<>>, variants |-> <<>>]

\* await this.database.<Model>.bulkCreate(...) rejects: the call was made,
\* nothing was stored, and the catch only rethrows
FailedCreate(s) == [s EXCEPT !.calls = @ + 1]

\* _bulkUpsertProducts (358-387); ok: database.Product.bulkCreate resolves
UpsertProducts(ok) ==
  /\ pc = "upsertProducts"
  /\ IF SkipsUpsert(frame.productBatch)
     THEN /\ ok
          /\ pc' = "upsertVariants"
          /\ UNCHANGED <<metrics, timers, frame, req, result, now, sink>>
     ELSE IF ok
     THEN /\ sink' = [sink EXCEPT !.calls = @ + 1, !.products = @ \o frame.productBatch]
          /\ metrics' = CountDbQuery(metrics)
          /\ timers' = endTimer(startTimer(timers, "bulk_upsert_products", now),
                                "bulk_upsert_products")
          /\ pc' = "upsertVariants"
          /\ UNCHANGED <<frame, req, result, now>>
     ELSE /\ sink' = FailedCreate(sink)
          /\ FailSync(metrics,
                      endTimer(startTimer(timers, "bulk_upsert_products", now),
                               "bulk_upsert_products"),
                      [message |-> "Product bulkCreate failed"])
  /\ UNCHANGED <<config, kept, db, rateLimitState, cacheVars, remote, ops>>

\* the count _fullSync, _partialSync and _singleProductSync return as products
ReturnedProducts(fr) == IF fr.syncType = "single" THEN 1 ELSE Len(fr.productBatch)

\* finalResult.metrics = this.metrics (89): the result refers to the engine's
\* metrics object. attached: this.metrics is still that object, so reading the
\* result's metrics reads the engine's; detached: the values of the object the
\* result refers to once the engine has replaced this.metrics
Kept(syncId, m) ==
  [has |-> TRUE, syncId |-> syncId, atReturn |-> m, attached |-> TRUE, detached |-> m]

\* result.metrics as the holder of the result reads it
KeptMetrics == IF kept.attached THEN metrics ELSE kept.detached

\* the result of a sync that completes (82-100)
FinalResult(fr, tm, t) ==
  [products |-> ReturnedProducts(fr),
   variants |-> Len(fr.variantBatch),
   type |-> fr.syncType,
   syncId |-> fr.syncId,
   hasDuration |-> endTimerResult(tm, fr.syncId, t).found,
   duration |-> endTimerResult(tm, fr.syncId, t).duration]

\* _bulkUpsertVariants (392-420) and the return of sync (82-100)
UpsertVariants(ok) ==
  /\ pc = "upsertVariants"
  /\ IF SkipsUpsert(frame.variantBatch) \/ ok
     THEN /\ (SkipsUpsert(frame.variantBatch) => ok)
          /\ sink' = IF SkipsUpsert(frame.variantBatch) THEN sink
                     ELSE [sink EXCEPT !.calls = @ + 1, !.variants = @ \o frame.variantBatch]
          /\ metrics' = IF SkipsUpsert(frame.variantBatch) THEN metrics
                        ELSE CountDbQuery(metrics)
          /\ timers' = endTimer(IF SkipsUpsert(frame.variantBatch) THEN timers
                                ELSE endTimer(startTimer(timers, "bulk_upsert_variants", now),
                                              "bulk_upsert_variants"),
                                frame.syncId)
          /\ result' = [status |-> "returned", op |-> "sync", syncType |-> frame.syncType,
                        value |-> FinalResult(frame, timers, now),
                        trace |-> Trace(frame)]
          /\ kept' = Kept(frame.syncId, metrics')
          /\ pc' = "idle"
          /\ frame' = NoFrame
          /\ req' = NoReq
          /\ now' = now
     ELSE /\ sink' = FailedCreate(sink)
          /\ FailSync(metrics,
                      endTimer(startTimer(timers, "bulk_upsert_variants", now),
                               "bulk_upsert_variants"),
                      [message |-> "Variant bulkCreate failed"])
          /\ UNCHANGED kept
  /\ UNCHANGED <<config, db, rateLimitState, cacheVars, remote, ops>>

\* ------------------------------------------ the executor called on its own
\* service._executeGraphQLWithRetry(service._buildProductQuery())
ExecuteGraphQL ==
  /\ Called("execute")
  /\ frame' = [op |-> "execute"]
  /\ req' = NewReq(_buildProductQuery("null", config), EmptyMap)
  /\ result' = NoResult
  /\ pc' = "request"
  /\ UNCHANGED <<config, kept, db, rateLimitState, metrics, cacheVars, timers, now, remote, sink>>

ResumeExecute ==
  /\ pc = "resume"
  /\ frame.op = "execute"
  /\ result' = IF req.status = "ok"
               THEN [status |-> "returned", op |-> "execute", value |-> req.response]
               ELSE [status |-> "thrown", op |-> "execute", error |-> req.lastError]
  /\ pc' = "idle"
  /\ frame' = NoFrame
  /\ req' = NoReq
  /\ UNCHANGED <<config, kept, db, rateLimitState, metrics, cacheVars, timers, now, remote, sink, ops>>

\* ------------------------------------------------ _fetchCostDataOptimized
\* faulty variant: a hit is not counted
HitUncounted(m) == m

\* this.metrics.cacheHits++
CountCacheHit(m) == [m EXCEPT !.cacheHits = @ + 1]

\* this.metrics.cacheMisses++
CountCacheMiss(m) == [m EXCEPT !.cacheMisses = @ + 1]

CostFrame(productIds) ==
  [op |-> "cost", productIds |-> productIds, cacheKey |-> CacheKey(productIds),
   hit |-> CacheKey(productIds) \in DOMAIN costCache,
   cacheBefore |-> costCache, startCalls |-> remote.calls,
   afterFailureOf |-> IF result.op = "cost" /\ result.status = "thrown"
                      THEN result.lookup.cacheKey ELSE "none"]

\* _fetchCostDataOptimized up to its first suspension (319-337)
_fetchCostDataOptimized(productIds) ==
  /\ Called("cost")
  /\ IF CacheKey(productIds) \in DOMAIN costCache
     THEN /\ metrics' = CountCacheHit(metrics)
          /\ result' = [status |-> "returned", op |-> "cost",
                        value |-> costCache[CacheKey(productIds)].costData,
                        lookup |-> CostFrame(productIds)]
          /\ UNCHANGED <<timers, now, req, frame, pc>>
     ELSE /\ metrics' = CountCacheMiss(metrics)
          /\ timers' = startTimer(timers, "fetch_cost_data", now)
          /\ now' = now + RateLimitWait(rateLimitState, now)
          /\ req' = NewReq(_buildCostQuery(SortIds(productIds)), EmptyMap)
          /\ frame' = CostFrame(productIds)
          /\ result' = NoResult
          /\ pc' = "request"
  /\ UNCHANGED <<config, kept, db, rateLimitState, cacheVars, remote, sink>>

\* _fetchCostDataOptimized after its request has settled (339-352)
ResumeCost ==
  /\ pc = "resume"
  /\ frame.op = "cost"
  /\ IF req.status = "failed"
     THEN /\ result' = [status |-> "thrown", op |-> "cost", error |-> req.lastError,
                        lookup |-> frame]
          /\ UNCHANGED <<metrics, costCache>>
     ELSE /\ metrics' = CountApiCall(metrics)
          /\ costCache' = (frame.cacheKey :>
                             [costData |-> _extractCostDataFromResponse(req.response.data),
                              ids |-> frame.productIds]) @@ costCache
          /\ result' = [status |-> "returned", op |-> "cost",
                        value |-> _extractCostDataFromResponse(req.response.data),
                        lookup |-> frame]
  /\ timers' = endTimer(timers, "fetch_cost_data")
  /\ pc' = "idle"
  /\ frame' = NoFrame
  /\ req' = NoReq
  /\ UNCHANGED <<config, kept, db, rateLimitState, configCache, productCache, variantCache,
                 now, remote, sink, ops>>

\* getMetrics().cacheStats (776-781)
CacheStats ==
  [configCache |-> Cardinality(configCache),
   productCache |-> Cardinality(productCache),
   variantCache |-> Cardinality(variantCache),
   costCache |-> Cardinality(DOMAIN costCache)]

\* ------------------------------------------------------------------ reset
\* this.metrics = { ... }: the engine takes a new metrics object; a result that
\* refers to the old one keeps referring to it, with the values it had
Detached(k, m) ==
  IF k.has /\ k.attached THEN [k EXCEPT !.attached = FALSE, !.detached = m] ELSE k

\* faulty variant: _clearCaches clears nothing
KeepsCaches(cache, empty) == cache

\* what _clearCaches leaves of a cache it clears
Cleared(cache, empty) == empty

\* reset (803-817): new metrics object, _clearCaches, performance.reset()
reset ==
  /\ Called("reset")
  /\ metrics' = ZeroMetrics
  /\ productCache' = Cleared(productCache, {})
  /\ variantCache' = Cleared(variantCache, {})
  /\ costCache' = Cleared(costCache, EmptyMap)
  /\ timers' = EmptyMap
  /\ remote' = [remote EXCEPT !.sinceReset = 0]
  /\ result' = [status |-> "returned", op |-> "reset", before |-> CacheStats]
  /\ kept' = Detached(kept, metrics)
  /\ UNCHANGED <<config, db, rateLimitState, configCache, now, pc, frame, req, sink>>

\* -------------------------------------------------- _chunkArray on its own
\* service._chunkArray(testArray, 3): const chunks = []; let i = 0
ChunkArrayCall(array, chunkSize) ==
  /\ Called("chunk")
  /\ frame' = [op |-> "_chunkArray", array |-> array, chunkSize |-> chunkSize,
               i |-> 0, chunks |-> <<>>]
  /\ result' = NoResult
  /\ pc' = "chunkLoop"
  /\ UNCHANGED <<config, kept, db, rateLimitState, metrics, cacheVars, timers, now, req, remote, sink>>

\* one pass of its loop: the test, then either the body and i += chunkSize, or
\* return chunks
ChunkStep ==
  /\ pc = "chunkLoop"
  /\ IF ChunkLoopTest(frame.i, frame.array)
     THEN /\ frame' = [frame EXCEPT
                         !.chunks = Append(@, Slice(frame.array, frame.i,
                                                    frame.i + frame.chunkSize)),
                         !.i = @ + frame.chunkSize]
          /\ UNCHANGED <<pc, result>>
     ELSE /\ result' = [status |-> "returned", op |-> "_chunkArray",
                        array |-> frame.array, chunkSize |-> frame.chunkSize,
                        value |-> frame.chunks]
          /\ pc' = "idle"
          /\ frame' = NoFrame
  /\ UNCHANGED <<config, kept, db, rateLimitState, metrics, cacheVars, timers, now, req, remote, sink,
                 ops>>

\* ------------------------------------------------- _manageMemory on its own
\* await service._manageMemory(); high: heapUsed > this.config.memoryThreshold
ManageMemoryCall(high) ==
  /\ Called("memory")
  /\ MemoryChecks(IF high THEN 1 ELSE 0)
  /\ result' = [status |-> "returned", op |-> "_manageMemory", high |-> high]
  /\ UNCHANGED <<config, kept, db, rateLimitState, metrics, timers, now, pc, frame, req, remote, sink>>

\* service.productCache.set('test1', ...): a client writes to one of the Maps
\* the engine exposes and never writes itself
CacheSet(cache, key) ==
  /\ Called("cacheSet")
  /\ configCache' = IF cache = "configCache" THEN configCache \cup {key} ELSE configCache
  /\ productCache' = IF cache = "productCache" THEN productCache \cup {key} ELSE productCache
  /\ variantCache' = IF cache = "variantCache" THEN variantCache \cup {key} ELSE variantCache
  /\ UNCHANGED <<config, kept, db, rateLimitState, metrics, costCache, timers, now, pc, frame, req,
                 result, remote, sink>>

\* ----------------------------------------- product-category relationships
\* faulty variant: the lookup never finds a relationship
findNothing(d, productId, categoryId) ==
  [found |-> FALSE, value |-> [id |-> "null"]]

\* const key = `${productId}-${categoryId}`
RelationKey(productId, categoryId) == productId \o "-" \o categoryId

\* MockDatabase.findProductCategoryRelationship: this.productCategories.get(key) || null
findProductCategoryRelationship(d, productId, categoryId) ==
  IF RelationKey(productId, categoryId) \in DOMAIN d.productCategories
  THEN [found |-> TRUE, value |-> d.productCategories[RelationKey(productId, categoryId)]]
  ELSE [found |-> FALSE, value |-> [id |-> "null"]]

\* uuidv4(): an identifier not given out before
Uuid(d) == "uuid" \o ToString(d.uuids + 1)

NewRelationship(d, productId, categoryId) ==
  [id |-> Uuid(d), productId |-> productId, categoryId |-> categoryId]

\* MockDatabase.createProductCategoryRelationship: the database afterwards
DbWithRelationship(d, productId, categoryId) ==
  [d EXCEPT !.uuids = @ + 1,
            !.productCategories =
               (RelationKey(productId, categoryId) :>
                  NewRelationship(d, productId, categoryId)) @@ @]

\* !this.id, !categoryId: undefined and the empty string are falsy
Missing(id) == id = ""

\* Product.createProductCategoryRelationship up to its first await (356-370)
createProductCategoryRelationship(productId, categoryId) ==
  /\ Called("relate")
  /\ IF Missing(productId) \/ Missing(categoryId)
     THEN /\ result' = [status |-> "thrown", op |-> "relate",
                        error |-> [message |-> IF Missing(productId)
                                               THEN "Product ID is required"
                                               ELSE "Category ID is required"]]
          /\ UNCHANGED <<pc, frame>>
     ELSE /\ frame' = [op |-> "relate", productId |-> productId, categoryId |-> categoryId]
          /\ result' = NoResult
          /\ pc' = "findRelationship"
  /\ UNCHANGED <<config, kept, db, rateLimitState, metrics, cacheVars, timers, now, req,
                 remote, sink>>

\* after db.findProductCategoryRelationship has resolved (370-374)
FoundRelationship ==
  /\ pc = "findRelationship"
  /\ LET existing == findProductCategoryRelationship(db, frame.productId, frame.categoryId)
     IN IF existing.found
        THEN /\ result' = [status |-> "returned", op |-> "relate", value |-> existing.value]
             /\ pc' = "idle"
             /\ frame' = NoFrame
        ELSE /\ pc' = "createRelationship"
             /\ UNCHANGED <<result, frame>>
  /\ UNCHANGED <<config, kept, db, rateLimitState, metrics, cacheVars, timers, now, req,
                 remote, sink, ops>>

\* db.createProductCategoryRelationship and the return (377-380)
CreatedRelationship ==
  /\ pc = "createRelationship"
  /\ db' = DbWithRelationship(db, frame.productId, frame.categoryId)
  /\ result' = [status |-> "returned", op |-> "relate",
                value |-> NewRelationship(db, frame.productId, frame.categoryId)]
  /\ pc' = "idle"
  /\ frame' = NoFrame
  /\ UNCHANGED <<config, kept, rateLimitState, metrics, cacheVars, timers, now, req,
                 remote, sink, ops>>

\* ------------------------------------------- the rate limiter called on its own
\* service._updateRateLimitFromHeaders({...})
UpdateRateLimitCall(headers) ==
  /\ Called("headers")
  /\ rateLimitState' = _updateRateLimitFromHeaders(rateLimitState, headers, now)
  /\ result' = [status |-> "returned", op |-> "_updateRateLimitFromHeaders",
                headers |-> headers]
  /\ UNCHANGED <<config, kept, db, metrics, cacheVars, timers, now, pc, frame, req, remote, sink>>

\* await service._enforceRateLimit() up to the await of _sleep (425-432), or
\* to its return when there is nothing to wait for
EnforceRateLimitCall ==
  /\ Called("limit")
  /\ LET waitTime == RateLimitWait(rateLimitState, now)
     IN IF waitTime > 0
        THEN /\ frame' = [op |-> "_enforceRateLimit", waitTime |-> waitTime]
             /\ pc' = "rateSleep"
             /\ result' = NoResult
        ELSE /\ result' = [status |-> "returned", op |-> "_enforceRateLimit", slept |-> 0]
             /\ UNCHANGED <<frame, pc>>
  /\ UNCHANGED <<config, kept, db, rateLimitState, metrics, cacheVars, timers, now, req, remote, sink>>

\* the timer of _sleep fires and _enforceRateLimit returns (432-434)
RateLimitWake ==
  /\ pc = "rateSleep"
  /\ now' = _sleep(now, frame.waitTime)
  /\ result' = [status |-> "returned", op |-> "_enforceRateLimit", slept |-> frame.waitTime]
  /\ pc' = "idle"
  /\ frame' = NoFrame
  /\ UNCHANGED <<config, kept, db, rateLimitState, metrics, cacheVars, timers, req, remote, sink, ops>>

\* ------------------------------------------ chunk processing called on its own
\* _processProductsInChunks(records) / _processVariantsInChunks(records) up to
\* the for-of loop (275-282, 297-304)
ProcessInChunksCall(kind, records) ==
  /\ Called("process")
  /\ frame' = [op |-> "process", kind |-> kind, input |-> records,
                chunks |-> _chunkArray(records, config.chunkSize),
                processed |-> <<>>, log |-> <<>>]
  /\ timers' = startTimer(timers, "process_" \o kind, now)
  /\ result' = NoResult
  /\ pc' = "processLoop"
  /\ UNCHANGED <<config, kept, db, rateLimitState, metrics, cacheVars, now, req, remote, sink>>

\* one turn of the loop (282-288, 304-310): the chunk is transformed, its
\* records pushed, then _manageMemory is awaited
ProcessChunk(high) ==
  /\ pc = "processLoop"
  /\ frame.chunks # <<>>
  /\ frame' = [frame EXCEPT
                 !.processed = @ \o (IF frame.kind = "products"
                                     THEN _processProductChunk(Head(frame.chunks))
                                     ELSE _processVariantChunk(Head(frame.chunks))),
                 !.chunks = Tail(@),
                 !.log = @ \o <<"chunk", "_manageMemory">>]
  /\ MemoryChecks(IF high THEN 1 ELSE 0)
  /\ UNCHANGED <<config, kept, db, rateLimitState, metrics, timers, now, pc, req, result,
                 remote, sink, ops>>

\* the loop is over: endTimer, return processed (290-291, 312-313)
ProcessReturn ==
  /\ pc = "processLoop"
  /\ frame.chunks = <<>>
  /\ timers' = endTimer(timers, "process_" \o frame.kind)
  /\ result' = [status |-> "returned", op |-> "process", kind |-> frame.kind,
                input |-> frame.input, value |-> frame.processed, log |-> frame.log]
  /\ pc' = "idle"
  /\ frame' = NoFrame
  /\ UNCHANGED <<config, kept, db, rateLimitState, metrics, cacheVars, now, req, remote, sink, ops>>

\* ------------------------------------------------- sync invocations that overlap
\* Invocations of sync that are suspended at their awaits while others run. Each
\* has its own locals (held in frame.inv); this.performance.timers is shared.
Invocations == 1..MaxOverlap

NotInvoked == [at |-> "none"]

InvOf(i) == IF frame.op = "overlap" THEN frame.inv[i] ELSE NotInvoked

WithInv(i, inv) ==
  [op |-> "overlap", inv |-> [j \in Invocations |-> IF j = i THEN inv ELSE InvOf(j)]]

\* sync(syncType) up to the await of the page request (59-62, 181-194)
OverlapSync(i, syncType) ==
  /\ pc \in {"idle", "overlap"}
  /\ InvOf(i).at = "none"
  /\ LET syncId == SyncId(now)
         tm == startTimer(timers, syncId, now)
     IN /\ timers' = IF syncType = "full"
                      THEN startTimer(tm, "fetch_all_products", now)
                      ELSE tm
        /\ frame' = WithInv(i, [at |-> "fetch", syncType |-> syncType, syncId |-> syncId,
                                 hasDuration |-> FALSE,
                                 owned |-> IF syncType = "full"
                                           THEN {syncId, "fetch_all_products"}
                                           ELSE {syncId}])
  /\ pc' = "overlap"
  /\ UNCHANGED <<config, kept, db, rateLimitState, metrics, cacheVars, now, req, result,
                 remote, sink, ops>>

\* the fetch of an invocation settles: it goes on to its last await (216, 223),
\* or fails and the catch of sync ends the sync timer (225-228, 102-107)
OverlapFetched(i, ok) ==
  /\ pc = "overlap"
  /\ InvOf(i).at = "fetch"
  /\ LET inv == InvOf(i)
         tm == IF inv.syncType = "full" THEN endTimer(timers, "fetch_all_products")
               ELSE timers
     IN IF ok
        THEN /\ timers' = tm
             /\ metrics' = metrics
             /\ frame' = WithInv(i, [inv EXCEPT !.at = "upsert",
                                                 !.owned = @ \ {"fetch_all_products"}])
        ELSE /\ timers' = endTimer(tm, inv.syncId)
             /\ metrics' = CountSyncError(metrics)
             /\ frame' = WithInv(i, [inv EXCEPT !.at = "thrown", !.owned = {}])
  /\ UNCHANGED <<config, kept, db, rateLimitState, cacheVars, now, pc, req, result,
                 remote, sink, ops>>

\* the last stage of an invocation settles: endTimer(syncId), finalResult (82-100)
OverlapReturn(i) ==
  /\ pc = "overlap"
  /\ InvOf(i).at = "upsert"
  /\ timers' = endTimer(timers, InvOf(i).syncId)
  /\ frame' = WithInv(i, [InvOf(i) EXCEPT
                            !.at = "returned",
                            !.owned = {},
                            !.hasDuration = endTimerResult(timers, InvOf(i).syncId, now).found])
  /\ UNCHANGED <<config, kept, db, rateLimitState, metrics, cacheVars, now, pc, req, result,
                 remote, sink, ops>>

\* _fetchCostDataOptimized(productIds) invoked while other lookups are suspended,
\* up to its return on a hit or to its first await on a miss (319-334)
OverlapLookup(i, productIds) ==
  /\ pc \in {"idle", "overlap"}
  /\ InvOf(i).at = "none"
  /\ LET cacheKey == CacheKey(productIds)
     IN IF cacheKey \in DOMAIN costCache
        THEN /\ metrics' = CountCacheHit(metrics)
             /\ frame' = WithInv(i, [at |-> "returned", cacheKey |-> cacheKey, hit |-> TRUE,
                                      sent |-> FALSE, value |-> costCache[cacheKey].costData])
             /\ timers' = timers
        ELSE /\ metrics' = CountCacheMiss(metrics)
             /\ frame' = WithInv(i, [at |-> "request", cacheKey |-> cacheKey, hit |-> FALSE,
                                      sent |-> FALSE, productIds |-> productIds,
                                      value |-> EmptyMap])
             /\ timers' = startTimer(timers, "fetch_cost_data", now)
  /\ pc' = "overlap"
  /\ UNCHANGED <<config, kept, db, rateLimitState, configCache, productCache, variantCache,
                 costCache, now, req, result, remote, sink, ops>>

\* the request of a suspended lookup is sent and settles (336-352); with
\* maxRetries = 1 a logical request is one call of the remote
OverlapLookupSettled(i, outcome) ==
  /\ pc = "overlap"
  /\ InvOf(i).at = "request"
  /\ remote' = [remote EXCEPT !.calls = @ + 1, !.sinceReset = @ + 1,
                              !.last = [query |-> _buildCostQuery(SortIds(InvOf(i).productIds)),
                                        variables |-> EmptyMap]]
  /\ timers' = endTimer(timers, "fetch_cost_data")
  /\ IF outcome.kind = "response"
     THEN /\ metrics' = CountApiCall(metrics)
          /\ costCache' = (InvOf(i).cacheKey :>
                             [costData |-> _extractCostDataFromResponse(outcome.data),
                              ids |-> InvOf(i).productIds]) @@ costCache
          /\ frame' = WithInv(i, [InvOf(i) EXCEPT
                                    !.at = "returned", !.sent = TRUE,
                                    !.value = _extractCostDataFromResponse(outcome.data)])
     ELSE /\ metrics' = CountFailedAttempt(metrics)
          /\ costCache' = costCache
          /\ frame' = WithInv(i, [InvOf(i) EXCEPT !.at = "thrown", !.sent = TRUE])
  /\ UNCHANGED <<config, kept, db, rateLimitState, configCache, productCache, variantCache,
                 now, pc, req, result, sink, ops>>

\* a millisecond passes while the invocations are suspended
OverlapWait ==
  /\ pc \in {"idle", "overlap"}
  /\ now < MaxOverlapMs
  /\ now' = now + 1
  /\ UNCHANGED <<config, kept, db, rateLimitState, metrics, cacheVars, timers, pc, frame, req,
                 result, remote, sink, ops>>

\* ------------------------------------------------ Product and MockDatabase
\* new Date(): an object, truthy whatever the time
NewDate == "date"

\* new Product(data) (261-278): undefined fields are the empty string; the
\* object has the methods of the class
Product(data, d) ==
  [id |-> IF Missing(data.id) THEN Uuid(d) ELSE data.id,
   title |-> data.title,
   vendor |-> data.vendor,
   createdAt |-> IF Missing(data.createdAt) THEN NewDate ELSE data.createdAt,
   updatedAt |-> NewDate,
   hasSave |-> TRUE]

\* uuidv4() calls made by new Product(data)
UuidsOfProduct(data) == IF Missing(data.id) THEN 1 ELSE 0

\* MockDatabase.findProduct (58-60)
findProduct(d, id) ==
  IF id \in DOMAIN d.products THEN d.products[id] ELSE [id |-> "null"]

\* the object MockDatabase.createProduct stores (69-74): a plain copy of the
\* fields, without the methods of the class
StoredProduct(data, d) ==
  [id |-> IF Missing(data.id) THEN Uuid(d) ELSE data.id,
   title |-> data.title,
   vendor |-> data.vendor,
   createdAt |-> NewDate,
   updatedAt |-> NewDate,
   hasSave |-> FALSE]

\* MockDatabase.createProduct (68-78): the database afterwards
createProduct(d, data) ==
  [d EXCEPT !.uuids = @ + UuidsOfProduct(data),
            !.products = [k \in DOMAIN @ \cup {StoredProduct(data, d).id} |->
                            IF k = StoredProduct(data, d).id
                            THEN StoredProduct(data, d) ELSE @[k]]]

\* MockDatabase.updateProduct (80-95): the database afterwards; existing fields
\* are overlaid by data, the id stays
updateProduct(d, id, data) ==
  IF id \notin DOMAIN d.products THEN d
  ELSE [d EXCEPT !.products[id] =
          [id |-> d.products[id].id, title |-> data.title, vendor |-> data.vendor,
           createdAt |-> data.createdAt, updatedAt |-> NewDate,
           hasSave |-> FALSE]]

\* if (!this.createdAt) (314)
IsNew(product) == Missing(product.createdAt)

\* beforeCreate (281-291) throws on a missing title or vendor
BeforeCreateError(product) ==
  IF Missing(product.title) THEN "Product title is required"
  ELSE IF Missing(product.vendor) THEN "Product vendor is required"
  ELSE "none"

\* what a call on the model has done and given back
ModelResult(op, id, wasStored, saved) ==
  [op |-> op, id |-> id, wasStored |-> wasStored, hooks |-> saved.hooks,
   status |-> saved.status, value |-> saved.value, error |-> saved.error]

\* product.save() (313-327): the hooks run, the database afterwards and the
\* outcome
save(product, d) ==
  IF IsNew(product)
  THEN IF BeforeCreateError(product) # "none"
       THEN [hooks |-> <<"beforeCreate">>, db |-> d, status |-> "thrown",
             value |-> [id |-> "null"],
             error |-> [message |-> BeforeCreateError(product)]]
       ELSE [hooks |-> <<"beforeCreate", "afterCreate">>, db |-> createProduct(d, product),
             status |-> "returned", error |-> [message |-> "none"],
             value |-> findProduct(createProduct(d, product), product.id)]
  ELSE [hooks |-> <<"beforeUpdate", "afterUpdate">>, db |-> updateProduct(d, product.id, product),
        status |-> "returned", error |-> [message |-> "none"],
        value |-> findProduct(updateProduct(d, product.id, product), product.id)]

\* Product.create(data) (338-341)
ProductCreate(data) ==
  /\ Called("create")
  /\ LET withUuid == [db EXCEPT !.uuids = @ + UuidsOfProduct(data)]
         saved == save(Product(data, db), withUuid)
     IN /\ db' = saved.db
        /\ result' = ModelResult("create", Product(data, db).id,
                                  Product(data, db).id \in DOMAIN db.products, saved)
  /\ UNCHANGED <<config, kept, rateLimitState, metrics, cacheVars, timers, now, pc, frame, req,
                 remote, sink>>

\* Object.assign(product, data) (349): the fields data has are written into
\* the object found, which is the object the store holds
Assigned(product, data) ==
  [product EXCEPT !.id = IF Missing(data.id) THEN @ ELSE data.id,
                  !.title = IF Missing(data.title) THEN @ ELSE data.title]

\* Product.update(id, data) (343-351): calling save on an object without that
\* method is a TypeError
ProductUpdate(id, data) ==
  /\ Called("update")
  /\ LET product == findProduct(db, id)
         assigned == [db EXCEPT !.products[id] = Assigned(product, data)]
     IN IF product.id = "null"
        THEN /\ db' = db
             /\ result' = ModelResult("update", id, FALSE,
                                       [hooks |-> <<>>, status |-> "thrown",
                                        value |-> [id |-> "null"],
                                        error |-> [message |-> "Product with id not found"]])
        ELSE IF ~product.hasSave
        THEN /\ db' = assigned
             /\ result' = ModelResult("update", id, TRUE,
                                       [hooks |-> <<>>, status |-> "thrown",
                                        value |-> [id |-> "null"],
                                        error |-> [message |-> "product.save is not a function"]])
        ELSE /\ db' = save(Assigned(product, data), assigned).db
             /\ result' = ModelResult("update", id, TRUE,
                                       save(Assigned(product, data), assigned))
  /\ UNCHANGED <<config, kept, rateLimitState, metrics, cacheVars, timers, now, pc, frame, req,
                 remote, sink>>

\* MockDatabase.createProduct called by a client of the store
StoreProduct(data) ==
  /\ Called("store")
  /\ db' = createProduct(db, data)
  /\ result' = [op |-> "store", status |-> "returned", id |-> StoredProduct(data, db).id,
                 value |-> StoredProduct(data, db)]
  /\ UNCHANGED <<config, kept, rateLimitState, metrics, cacheVars, timers, now, pc, frame, req,
                 remote, sink>>

\* Product.findById(id) (329-331)
ProductFindById(id) ==
  /\ Called("find")
  /\ result' = [op |-> "find", status |-> "returned", id |-> id, value |-> findProduct(db, id)]
  /\ UNCHANGED <<config, kept, db, rateLimitState, metrics, cacheVars, timers, now, pc, frame,
                 req, remote, sink>>

\* --------------------------------- ShopifyService.upsertMainProductOptimized
\* the awaited steps of the call, in the order of the code
UpsertSteps == <<"findOrCreate", "update", "productType", "typeUpdate", "category">>

\* faulty variant: no step is inside the inner try
AllFatal(step) == FALSE

\* the steps inside the inner try (224-238), whose errors are logged and dropped
NonFatal(step) == step \in {"productType", "typeUpdate", "category"}

\* what the failing step throws
UpsertError(step) == [message |-> step \o " failed"]

\* upsertMainProductOptimized(productData) up to its first await (171-172)
upsertMainProductOptimized(shopifyId) ==
  /\ Called("upsert")
  /\ frame' = [op |-> "upsert", shopify_product_id |-> shopifyId, step |-> "findOrCreate",
                product |-> [id |-> "null"], created |-> FALSE]
  /\ result' = NoResult
  /\ pc' = "upsert"
  /\ UNCHANGED <<config, kept, db, rateLimitState, metrics, cacheVars, timers, now, req,
                 remote, sink>>

\* return { id: product.id, created } (240), after a failure in the inner try or none
UpsertReturns(failedAt) ==
  /\ result' = [status |-> "returned", op |-> "upsert",
                 shopify_product_id |-> frame.shopify_product_id,
                 value |-> [id |-> frame.product.id, created |-> frame.created],
                 failedAt |-> failedAt]
  /\ frame' = NoFrame
  /\ pc' = "idle"

\* the awaited step settles: Models.Product.findOrCreate (172-199), product.update
\* (204-221), findOrCreateProductType (226), product.update of the type (227),
\* createDynamicCategoryRelationship (230)
UpsertStep(ok) ==
  /\ pc = "upsert"
  /\ LET step == frame.step
         sid == frame.shopify_product_id
     IN IF ~ok
        THEN /\ db' = db
             /\ IF NonFatal(step)
                THEN UpsertReturns(step)
                ELSE /\ result' = [status |-> "thrown", op |-> "upsert",
                                    shopify_product_id |-> sid,
                                    error |-> UpsertError(step), failedAt |-> step]
                     /\ frame' = NoFrame
                     /\ pc' = "idle"
        ELSE CASE step = "findOrCreate" ->
                    IF sid \in DOMAIN db.table
                    THEN /\ frame' = [frame EXCEPT !.product = [id |-> db.table[sid].id],
                                                   !.created = FALSE, !.step = "update"]
                         /\ UNCHANGED <<db, result, pc>>
                    ELSE /\ db' = [db EXCEPT !.uuids = @ + 1,
                                             !.table = (sid :> [id |-> Uuid(db), updates |-> 0,
                                                               product_type_id |-> "null"]) @@ @]
                         /\ frame' = [frame EXCEPT !.product = [id |-> Uuid(db)],
                                                   !.created = TRUE, !.step = "productType"]
                         /\ UNCHANGED <<result, pc>>
               [] step = "update" ->
                    /\ db' = [db EXCEPT !.table[sid].updates = @ + 1]
                    /\ frame' = [frame EXCEPT !.step = "productType"]
                    /\ UNCHANGED <<result, pc>>
               [] step = "productType" ->
                    /\ frame' = [frame EXCEPT !.step = "typeUpdate"]
                    /\ UNCHANGED <<db, result, pc>>
               [] step = "typeUpdate" ->
                    /\ db' = [db EXCEPT !.table[sid].product_type_id = "type1"]
                    /\ frame' = [frame EXCEPT !.step = "category"]
                    /\ UNCHANGED <<result, pc>>
               [] step = "category" ->
                    /\ db' = db
                    /\ UpsertReturns("none")
  /\ UNCHANGED <<config, kept, rateLimitState, metrics, cacheVars, timers, now, req,
                 remote, sink, ops>>

\* ------------------------------------------------- ShopifyService.batchSync
\* faulty variant: the loop does not advance
SameBatchIndex(i, batchSize) == i

\* for (let i = 0; ...; i += batchSize)
NextBatchIndex(i, batchSize) == i + batchSize

\* the positions (1-based) of products.slice(i, i + batchSize)
BatchPositions(products, i, batchSize) ==
  {p \in 1..Len(products) : i < p /\ p <= i + batchSize}

\* a task of batch.map(async ...) run up to its first await: the test of the
\* while loop (366) and, if it passes, the call of upsertMainProductOptimized
TaskAt(retries, maxRetries) ==
  IF retries < maxRetries THEN "attempting" ELSE "done"

\* batchSync(products, { batchSize, maxRetries }) up to the loop (351-359);
\* products are held by their shopify_product_id
batchSync(products, batchSize, maxRetries) ==
  /\ Called("batch")
  /\ frame' = [op |-> "batchSync", products |-> products, batchSize |-> batchSize,
                maxRetries |-> maxRetries, i |-> 0, tasks |-> EmptyMap,
                success |-> <<>>, failed |-> <<>>, skipped |-> <<>>,
                failures |-> [p \in 1..Len(products) |-> 0],
                attempts |-> [p \in 1..Len(products) |-> 0]]
  /\ result' = NoResult
  /\ pc' = "batchLoop"
  /\ UNCHANGED <<config, kept, db, rateLimitState, metrics, cacheVars, timers, now, req,
                 remote, sink>>

\* the head of the for loop (361-364): the tasks of the next batch are started,
\* or the results are returned (396-397)
BatchLoop ==
  /\ pc = "batchLoop"
  /\ IF frame.i < Len(frame.products)
     THEN LET batch == BatchPositions(frame.products, frame.i, frame.batchSize)
          IN /\ frame' = [frame EXCEPT
                            !.tasks = [p \in batch |->
                                         [at |-> TaskAt(0, frame.maxRetries), retries |-> 0]],
                            !.attempts = [p \in DOMAIN @ |->
                                            IF p \in batch /\ 0 < frame.maxRetries
                                            THEN @[p] + 1 ELSE @[p]]]
             /\ pc' = "batch"
             /\ result' = result
     ELSE /\ result' = [status |-> "returned", op |-> "batchSync",
                         products |-> frame.products, maxRetries |-> frame.maxRetries,
                         value |-> [success |-> frame.success, failed |-> frame.failed,
                                    skipped |-> frame.skipped],
                         failures |-> frame.failures, attempts |-> frame.attempts]
          /\ frame' = NoFrame
          /\ pc' = "idle"
  /\ UNCHANGED <<config, kept, db, rateLimitState, metrics, cacheVars, timers, now, req,
                 remote, sink, ops>>

\* upsertMainProductOptimized settles for one product of the batch (368-388)
UpsertSettles(p, ok) ==
  /\ pc = "batch"
  /\ p \in DOMAIN frame.tasks
  /\ frame.tasks[p].at = "attempting"
  /\ LET retries == frame.tasks[p].retries + 1
     IN frame' =
          IF ok
          THEN [frame EXCEPT !.success = Append(@, frame.products[p]),
                             !.tasks[p].at = "done"]
          ELSE IF retries >= frame.maxRetries
          THEN [frame EXCEPT !.failed = Append(@, frame.products[p]),
                             !.failures[p] = @ + 1,
                             !.tasks[p] = [at |-> TaskAt(retries, frame.maxRetries),
                                           retries |-> retries]]
          ELSE [frame EXCEPT !.failures[p] = @ + 1,
                             !.tasks[p] = [at |-> "waiting", retries |-> retries]]
  /\ UNCHANGED <<config, kept, db, rateLimitState, metrics, cacheVars, timers, now, pc, req,
                 result, remote, sink, ops>>

\* the timer of a retry wait fires (386): the while loop is tested again
RetryWake(p) ==
  /\ pc = "batch"
  /\ p \in DOMAIN frame.tasks
  /\ frame.tasks[p].at = "waiting"
  /\ frame' = [frame EXCEPT
                 !.tasks[p].at = TaskAt(frame.tasks[p].retries, frame.maxRetries),
                 !.attempts[p] = IF frame.tasks[p].retries < frame.maxRetries
                                 THEN @ + 1 ELSE @]
  /\ UNCHANGED <<config, kept, db, rateLimitState, metrics, cacheVars, timers, now, pc, req,
                 result, remote, sink, ops>>

\* Promise.all of the batch resolves: the loop goes on (361)
BatchDone ==
  /\ pc = "batch"
  /\ \A p \in DOMAIN frame.tasks : frame.tasks[p].at = "done"
  /\ frame' = [frame EXCEPT !.i = NextBatchIndex(frame.i, frame.batchSize),
                            !.tasks = EmptyMap]
  /\ pc' = "batchLoop"
  /\ UNCHANGED <<config, kept, db, rateLimitState, metrics, cacheVars, timers, now, req,
                 result, remote, sink, ops>>

\* ---------------------------------------------------------------- the clock
\* time that passes while the engine is not called
Tick(ms) ==
  /\ Called("tick")
  /\ now' = now + ms
  /\ UNCHANGED <<config, kept, db, rateLimitState, metrics, cacheVars, timers, pc, frame, req, result,
                 remote, sink>>

\* ------------------------------------------------- what the environment offers
ErrorMessages(fr) ==
  IF fr.op = "execute" THEN {"API temporarily unavailable", "Temporary failure"}
  ELSE {"API temporarily unavailable"}

\* the headers of a response: none at all, an empty object, or a capacity header
HeaderChoices(fr) ==
  IF fr.op = "execute"
  THEN {<<FALSE, NoHeaders>>, <<TRUE, NoHeaders>>, <<TRUE, Headers(TRUE, 35, 40, FALSE, 0)>>,
        <<TRUE, Headers(TRUE, 39, 40, TRUE, 2)>>, <<TRUE, Headers(TRUE, 41, 40, FALSE, 0)>>}
  ELSE {<<FALSE, NoHeaders>>, <<TRUE, Headers(TRUE, 35, 40, FALSE, 0)>>}

\* the headers of a response that carries an errors list
ErrorHeaderChoices(fr) ==
  IF fr.op = "execute"
  THEN {<<FALSE, NoHeaders>>, <<TRUE, Headers(TRUE, 39, 40, TRUE, 2)>>}
  ELSE {<<FALSE, NoHeaders>>}

PageIdChoices == {<<>>, <<"p1">>, <<"p1", "p2">>}

VariantChoices ==
  {VariantsData(<<>>),
   VariantsData(<<VariantEdge("p1", <<VariantNode("v1", FALSE), VariantNode("v2", TRUE)>>),
                  VariantEdge("p2", <<>>)>>)}

CostChoices ==
  {CostData(<<>>),
   CostData(<<[id |-> "v1", hasUnitCost |-> TRUE, amount |-> Str(5)],
              [id |-> "v2", hasUnitCost |-> FALSE, amount |-> Str(0)]>>)}

\* the listing stops within MaxPages pages
MayHaveNextPage(fr) == fr.op = "sync" /\ fr.pageCount + 1 < MaxPages

DataChoices(query, fr) ==
  {EmptyData} \cup
  CASE query.name = "getProducts" ->
         {ProductsData(Edges(ids), hn) :
            ids \in IF fr.op = "execute" THEN {<<"p1">>} ELSE PageIdChoices,
            hn \in {h \in BOOLEAN : h => MayHaveNextPage(fr)}}
    [] query.name = "getUpdatedProducts" ->
         {ProductsData(Edges(ids), FALSE) : ids \in PageIdChoices}
    [] query.name = "getProduct" ->
         {SingleProductData(TRUE, "p1"), SingleProductData(FALSE, "p1")}
    [] query.name = "getVariantsBatch" -> VariantChoices
    [] query.name = "getCostData" -> CostChoices
    [] OTHER -> {}

Outcomes(query, fr) ==
  {ThrowOutcome(msg) : msg \in ErrorMessages(fr)}
    \cup {ResponseOutcome(hh[1], hh[2], <<"THROTTLED">>, EmptyData) :
            hh \in ErrorHeaderChoices(fr)}
    \cup {ResponseOutcome(hh[1], hh[2], <<>>, d) :
            hh \in HeaderChoices(fr), d \in DataChoices(query, fr)}

RetryOptionChoices ==
  {Options(0, 0, 0, 0, 0), Options(0, 1, 10, 15, 0), Options(0, 2, 10, 15, 0),
   Options(0, 4, 10, 15, 0)}

SyncOptionChoices == {Options(1, 2, 10, 15, 1), Options(2, 1, 0, 0, 2)}

CostOptionChoices == {Options(0, 0, 0, 0, 0), Options(0, 1, 0, 0, 0)}

SyncCalls ==
  {<<"full", [none |-> 0]>>, <<"partial", [since |-> "2024-01-01", limit |-> 10]>>,
   <<"single", [productId |-> "p1"]>>, <<"bogus", [none |-> 0]>>}

CostLookups == {<<"p1", "p2">>, <<"p2", "p1">>, <<"p1", "p1", "p2">>, <<"p2", "p10">>}

Arrays == UNION {[1..n -> {"a", "b"}] : n \in 0..MaxArrayLen}

\* at most two nodes a page, two variants a batch
HighChoices == 0..(MaxPages * 4)

\* ------------------------------------------------------------ specifications
\* syncs on a fresh engine
Init == \E options \in SyncOptionChoices : Constructed(options) /\ ops = Plan({"sync"})

Next ==
  \/ \E call \in SyncCalls : sync(call[1], call[2])
  \/ \E outcome \in Outcomes(req.query, frame) : Attempt(outcome)
  \/ \E high \in BOOLEAN : ResumeProductsPage(high)
  \/ ResumeUpdatedProducts
  \/ ResumeSingleProduct
  \/ StartVariantFetch
  \/ VariantLoop
  \/ ResumeVariants
  \/ \E high \in HighChoices : ProcessProducts(high)
  \/ \E high \in HighChoices : ProcessVariants(high)
  \/ \E ok \in BOOLEAN : UpsertProducts(ok)
  \/ \E ok \in BOOLEAN : UpsertVariants(ok)

Spec == Init /\ [][Next]_vars

\* the request executor called on its own, as the tests do
InitRetry ==
  \E options \in RetryOptionChoices : Constructed(options) /\ ops = Plan({"execute", "tick"})

NextRetry ==
  \/ ExecuteGraphQL
  \/ \E outcome \in Outcomes(req.query, frame) : Attempt(outcome)
  \/ ResumeExecute
  \/ Tick(InitialResetWindowMs)

SpecRetry == InitRetry /\ [][NextRetry]_vars

\* cost lookups and resets
InitCost ==
  \E options \in CostOptionChoices : Constructed(options) /\ ops = Plan({"cost", "reset"})

NextCost ==
  \/ \E productIds \in CostLookups : _fetchCostDataOptimized(productIds)
  \/ \E outcome \in Outcomes(req.query, frame) : Attempt(outcome)
  \/ ResumeCost
  \/ reset

SpecCost == InitCost /\ [][NextCost]_vars

\* the memory guard, client-filled caches and cost lookups
ClientCaches == {"configCache", "productCache", "variantCache"}

InitMemory ==
  Constructed(Options(0, 1, 0, 0, 0)) /\ ops = Plan({"cacheSet", "memory", "cost"})

NextMemory ==
  \/ \E cache \in ClientCaches : CacheSet(cache, "test1")
  \/ \E high \in BOOLEAN : ManageMemoryCall(high)
  \/ \E productIds \in CostLookups : _fetchCostDataOptimized(productIds)
  \/ \E outcome \in Outcomes(req.query, frame) : Attempt(outcome)
  \/ ResumeCost

SpecMemory == InitMemory /\ [][NextMemory]_vars

\* a session on one engine: syncs, cost lookups and resets one after the other,
\* against a remote that answers each request at once or fails it
SessionData(query) ==
  CASE query.name = "getProducts" ->
         {ProductsData(Edges(ids), FALSE) : ids \in {<<>>, <<"p1", "p2">>}}
    [] query.name = "getProduct" -> {SingleProductData(TRUE, "p1")}
    [] query.name = "getVariantsBatch" -> VariantChoices \ {VariantsData(<<>>)}
    [] query.name = "getCostData" -> CostChoices \ {CostData(<<>>)}
    [] OTHER -> {}

SessionOutcomes(query) ==
  {ThrowOutcome("API temporarily unavailable")}
    \cup {ResponseOutcome(FALSE, NoHeaders, <<>>, d) : d \in SessionData(query)}

SessionLookups == {<<"p1", "p2">>}

SessionSyncs == {call \in SyncCalls : call[1] \in {"full", "single"}}

InitSession ==
  /\ Constructed(Options(2, 1, 0, 0, 2))
  /\ ops = [Plan({"cost", "reset"}) EXCEPT !["sync"] = MaxSessionSyncs]

NextSession ==
  \/ \E call \in SessionSyncs : sync(call[1], call[2])
  \/ \E productIds \in SessionLookups : _fetchCostDataOptimized(productIds)
  \/ reset
  \/ \E outcome \in SessionOutcomes(req.query) : Attempt(outcome)
  \/ ResumeProductsPage(FALSE)
  \/ ResumeSingleProduct
  \/ StartVariantFetch
  \/ VariantLoop
  \/ ResumeVariants
  \/ ProcessProducts(0)
  \/ ProcessVariants(0)
  \/ UpsertProducts(TRUE)
  \/ UpsertVariants(TRUE)
  \/ ResumeCost

SpecSession == InitSession /\ [][NextSession]_vars

\* engines built from options that are not all positive, and the executor on them
OptionsWith(options, override) == [options EXCEPT !.config = override]

ConfigOptionChoices ==
  {Options(0, 1, 10, 15, 0),
   Options(0, 0 - 1, 10, 15, 0),
   Options(0 - 5, 2, 0 - 10, 15, 0),
   OptionsWith(Options(0, 2, 10, 15, 0), [maxRetries |-> 0]),
   OptionsWith(Options(0, 2, 10, 15, 0), [chunkSize |-> 0, maxDelayMs |-> 0])}

InitConfig ==
  \E options \in ConfigOptionChoices : Constructed(options) /\ ops = Plan({"execute"})

NextConfig ==
  \/ ExecuteGraphQL
  \/ \E outcome \in Outcomes(req.query, frame) : Attempt(outcome)
  \/ ResumeExecute

SpecConfig == InitConfig /\ [][NextConfig]_vars

\* relationships created through the Product model, one call after the other
ProductIdChoices == {"", "123", "123-a", "456"}

CategoryIdChoices == {"", "c1", "a-c1", "c2"}

InitRelation == Constructed(Options(0, 0, 0, 0, 0)) /\ ops = Plan({"relate"})

NextRelation ==
  \/ \E productId \in ProductIdChoices, categoryId \in CategoryIdChoices :
       createProductCategoryRelationship(productId, categoryId)
  \/ FoundRelationship
  \/ CreatedRelationship

SpecRelation == InitRelation /\ [][NextRelation]_vars

\* the rate limiter called on its own, as the tests do, while time passes
LimitHeaderChoices ==
  {NoHeaders, Headers(TRUE, 35, 40, FALSE, 0), Headers(TRUE, 39, 40, FALSE, 0),
   Headers(TRUE, 40, 40, TRUE, 2), Headers(FALSE, 0, 0, TRUE, 1),
   Headers(TRUE, 39, 40, TRUE, 0)}

TickChoices == {InitialResetWindowMs \div 2, InitialResetWindowMs, 2 * InitialResetWindowMs}

InitLimit ==
  Constructed(Options(0, 0, 0, 0, 0)) /\ ops = Plan({"limit", "headers", "tick"})

NextLimit ==
  \/ \E headers \in LimitHeaderChoices : UpdateRateLimitCall(headers)
  \/ EnforceRateLimitCall
  \/ RateLimitWake
  \/ \E ms \in TickChoices : Tick(ms)

\* a timer that is set fires
SpecLimit == InitLimit /\ [][NextLimit]_vars /\ WF_vars(RateLimitWake)

\* chunk processing called on its own, on records as the fetches return them
RawVariant(id) ==
  VariantsOfEdge(VariantEdge("p1", <<VariantNode(id, id = "v2")>>))[1]

RecordChoices(kind) ==
  IF kind = "products"
  THEN UNION {[1..n -> {ProductNode("p1"), ProductNode("p2")}] : n \in 0..MaxRecords}
  ELSE UNION {[1..n -> {RawVariant("v1"), RawVariant("v2")}] : n \in 0..MaxRecords}

InitProcess ==
  \E options \in SyncOptionChoices :
    Constructed(options) /\ ops = Plan({"process", "cacheSet"})

NextProcess ==
  \/ \E kind \in {"products", "variants"} :
       \E records \in RecordChoices(kind) : ProcessInChunksCall(kind, records)
  \/ \E high \in BOOLEAN : ProcessChunk(high)
  \/ ProcessReturn
  \/ \E cache \in ClientCaches : CacheSet(cache, "test1")

\* the loop runs over a finite array: it is left
SpecProcess ==
  InitProcess /\ [][NextProcess]_vars
    /\ WF_vars(\E high \in BOOLEAN : ProcessChunk(high)) /\ WF_vars(ProcessReturn)

\* resets of an engine whose caches, counters and rate-limit state have been used
InitReset ==
  /\ Constructed(Options(0, 1, 0, 0, 0))
  /\ ops = Plan({"cacheSet", "cost", "headers", "reset"})

NextReset ==
  \/ \E cache \in ClientCaches : CacheSet(cache, "test1")
  \/ \E productIds \in SessionLookups : _fetchCostDataOptimized(productIds)
  \/ \E outcome \in SessionOutcomes(req.query) : Attempt(outcome)
  \/ ResumeCost
  \/ UpdateRateLimitCall(Headers(TRUE, 35, 40, TRUE, 2))
  \/ reset

SpecReset == InitReset /\ [][NextReset]_vars

\* sync invocations started while others are suspended
InitOverlap == Constructed(Options(0, 1, 0, 0, 0)) /\ ops = Plan({})

NextOverlap ==
  \/ \E i \in Invocations, syncType \in {"full", "single"} : OverlapSync(i, syncType)
  \/ \E i \in Invocations, ok \in BOOLEAN : OverlapFetched(i, ok)
  \/ \E i \in Invocations : OverlapReturn(i)
  \/ OverlapWait

SpecOverlap == InitOverlap /\ [][NextOverlap]_vars

\* cost lookups started while others are suspended
InitOverlapCost == Constructed(Options(0, 1, 0, 0, 0)) /\ ops = Plan({})

NextOverlapCost ==
  \/ \E i \in Invocations, productIds \in CostLookups : OverlapLookup(i, productIds)
  \/ \E i \in Invocations, outcome \in SessionOutcomes([name |-> "getCostData"]) :
       OverlapLookupSettled(i, outcome)

SpecOverlapCost == InitOverlapCost /\ [][NextOverlapCost]_vars

\* the Product model over the mock database
ProductDataChoices ==
  {[id |-> id, title |-> title, vendor |-> "V", createdAt |-> createdAt] :
     id \in {"", "a", "b"}, title \in {"", "T"}, createdAt \in {"", "date0"}}

UpdateDataChoices == {[id |-> "", title |-> "T2"], [id |-> "b", title |-> ""]}

ProductIdsKnown == {"a", "b", "uuid1"}

InitProduct ==
  Constructed(Options(0, 0, 0, 0, 0)) /\ ops = Plan({"create", "update", "store", "find"})

NextProduct ==
  \/ \E data \in ProductDataChoices : ProductCreate(data)
  \/ \E id \in ProductIdsKnown, data \in UpdateDataChoices : ProductUpdate(id, data)
  \/ \E data \in ProductDataChoices : StoreProduct(data)
  \/ \E id \in ProductIdsKnown : ProductFindById(id)

SpecProduct == InitProduct /\ [][NextProduct]_vars

\* upsertMainProductOptimized called on its own, each awaited step free to fail
ShopifyIdChoices == {"sp1", "sp2"}

InitUpsert == Constructed(Options(0, 0, 0, 0, 0)) /\ ops = Plan({"upsert"})

NextUpsert ==
  \/ \E shopifyId \in ShopifyIdChoices : upsertMainProductOptimized(shopifyId)
  \/ \E ok \in BOOLEAN : UpsertStep(ok)

SpecUpsert == InitUpsert /\ [][NextUpsert]_vars

\* batchSync over lists of distinct products, with upserts that succeed or fail
BatchProductLists == {[p \in 1..n |-> "sp" \o ToString(p)] : n \in 0..MaxBatchProducts}

InitBatch == Constructed(Options(0, 0, 0, 0, 0)) /\ ops = Plan({"batch"})

NextBatch ==
  \/ \E products \in BatchProductLists, batchSize \in 0..MaxBatchSize,
        maxRetries \in 0..MaxBatchRetries : batchSync(products, batchSize, maxRetries)
  \/ BatchLoop
  \/ \E p \in 1..MaxBatchProducts, ok \in BOOLEAN : UpsertSettles(p, ok)
  \/ \E p \in 1..MaxBatchProducts : RetryWake(p)
  \/ BatchDone

\* synchronous code runs on, every upsert settles and every timer fires
SpecBatch ==
  InitBatch /\ [][NextBatch]_vars
    /\ WF_vars(BatchLoop) /\ WF_vars(BatchDone)
    /\ WF_vars(\E p \in 1..MaxBatchProducts, ok \in BOOLEAN : UpsertSettles(p, ok))
    /\ WF_vars(\E p \in 1..MaxBatchProducts : RetryWake(p))

\* _chunkArray called on its own, as the tests do
InitChunk == Constructed(Options(0, 0, 0, 0, 2)) /\ ops = Plan({"chunk"})

NextChunk ==
  \/ \E array \in Arrays, chunkSize \in 1..MaxChunkSize : ChunkArrayCall(array, chunkSize)
  \/ ChunkStep

\* the loop is synchronous code: once entered it keeps running
SpecChunk == InitChunk /\ [][NextChunk]_vars /\ WF_vars(ChunkStep)

\* ================================================================ properties
\* ------------------------------------------------- the request executor
\* an answer of the remote that makes an attempt fail: a thrown error or a
\* response with a non-empty errors list
AttemptFailed(outcome) ==
  IF outcome.kind = "throw" THEN TRUE ELSE Len(outcome.errors) > 0

\* the error such an attempt ends with
CauseOf(outcome) ==
  IF outcome.kind = "throw" THEN outcome.error
  ELSE [message |-> "GraphQL errors: " \o outcome.errors[1]]

\* a direct call of the executor has left its loop and is about to settle
ExecuteSettles == pc = "resume" /\ frame.op = "execute"

\* C1: when the remote fails the first k < maxRetries attempts of a request and
\* answers the next one, the executor returns that answer, the remote has been
\* invoked k + 1 times for the request and metrics.errors has grown by k.
C1_RetryThenSuccess ==
  [][(ExecuteSettles /\ req.status = "ok") =>
       LET k == Len(req.log) - 1
       IN /\ k >= 0 /\ k < config.maxRetries
          /\ \A i \in 1..k : AttemptFailed(req.log[i])
          /\ ~AttemptFailed(req.log[k + 1])
          /\ result'.status = "returned"
          /\ result'.value = req.log[k + 1]
          /\ remote.calls - req.startCalls = k + 1
          /\ metrics.errors - req.startErrors = k]_vars

\* two failures, then an answer, with four attempts allowed
C1_Witness ==
  /\ ExecuteSettles /\ req.status = "ok"
  /\ config.maxRetries = 4
  /\ Len(req.log) = 3
  /\ AttemptFailed(req.log[1]) /\ AttemptFailed(req.log[2])
  /\ metrics.errors = 2

\* C2: when the remote fails all maxRetries attempts of a request, the executor
\* throws the error of the last attempt, the remote has been invoked maxRetries
\* times, metrics.errors has grown by maxRetries, and it has slept
\* maxRetries - 1 times: not after the last attempt.
C2_RetriesExhausted ==
  [][(ExecuteSettles /\ req.status = "failed") =>
       /\ Len(req.log) = config.maxRetries
       /\ \A i \in 1..Len(req.log) : AttemptFailed(req.log[i])
       /\ result'.status = "thrown"
       /\ result'.error = CauseOf(req.log[Len(req.log)])
       /\ remote.calls - req.startCalls = config.maxRetries
       /\ metrics.errors - req.startErrors = config.maxRetries
       /\ Len(req.delays) = config.maxRetries - 1]_vars

\* three failures in a row with the default three attempts, the last with a
\* cause of its own
C2_Witness ==
  /\ ExecuteSettles /\ req.status = "failed"
  /\ config.maxRetries = DefaultMaxRetries
  /\ Len(req.log) = 3
  /\ CauseOf(req.log[3]) # CauseOf(req.log[2])
  /\ req.lastError = CauseOf(req.log[3])
  /\ Len(req.delays) = 2

\* a request of the executor is under way or about to settle
InRequest == pc \in {"request", "resume"}

\* C3: the delay slept after failed attempt a is
\* min(baseDelayMs * 2^(a-1), maxDelayMs); the delays of one request never
\* decrease and never exceed maxDelayMs.
C3_BackoffDelays ==
  InRequest =>
    \A a \in 1..Len(req.delays) :
      /\ a < config.maxRetries
      /\ AttemptFailed(req.log[a])
      /\ req.delays[a] = Min(config.baseDelayMs * (2 ^ (a - 1)), config.maxDelayMs)
      /\ req.delays[a] <= config.maxDelayMs
      /\ a > 1 => req.delays[a - 1] <= req.delays[a]

\* base 10, cap 15: the second and third delays are cut to the cap
C3_Witness ==
  /\ InRequest
  /\ config.baseDelayMs = 10 /\ config.maxDelayMs = 15
  /\ req.delays = <<10, 15, 15>>

\* ------------------------------------------------------- the rate limiter
\* the answer the remote gave to the attempt made in this step
Answered(log) == log[Len(log)]

\* C9: a response whose headers carry the capacity header 'used/limit' leaves
\* remaining = limit - used and bucketSize = limit (held as the header's text);
\* a response without that header leaves remaining and bucketSize as they were.
C9_UpdateFromHeaders ==
  [][(remote'.calls = remote.calls + 1 /\ Answered(req'.log).kind = "response"
        /\ Answered(req'.log).hasHeaders) =>
       LET headers == Answered(req'.log).headers
       IN IF headers.hasLimit
          THEN /\ rateLimitState'.remaining = headers.max - headers.current
               /\ ToNumber(rateLimitState'.bucketSize) = headers.max
          ELSE /\ rateLimitState'.remaining = rateLimitState.remaining
               /\ rateLimitState'.bucketSize = rateLimitState.bucketSize]_vars

\* the header '35/40' has been read
C9_Witness ==
  /\ InRequest
  /\ Len(req.log) > 0
  /\ Answered(req.log).kind = "response"
  /\ Answered(req.log).hasHeaders
  /\ Answered(req.log).headers = Headers(TRUE, 35, 40, FALSE, 0)
  /\ rateLimitState.remaining = 5
  /\ rateLimitState.bucketSize = Str(40)

\* C10: in every state 0 <= remaining <= bucketSize and bucketSize > 0.
C10_RateLimitInRange ==
  /\ 0 <= rateLimitState.remaining
  /\ rateLimitState.remaining <= ToNumber(rateLimitState.bucketSize)
  /\ ToNumber(rateLimitState.bucketSize) > 0

\* ------------------------------------------------------------------- sync
\* C4: every attempt sent to the remote, failed or not, in every sync type and
\* in cost lookups, adds one to metrics.apiCalls: between calls apiCalls is the
\* number of requests the remote has received since construction or reset.
C4_ApiCallsCountAttempts ==
  pc = "idle" => metrics.apiCalls = remote.sinceReset

KnownSyncTypes == {"full", "partial", "single"}

\* the type a sync call made in this step was given
CalledSyncType == IF pc' = "idle" THEN result'.syncType ELSE frame'.syncType

\* C5: sync with a type other than 'full', 'partial', 'single' throws, and
\* from the call to the throw the remote receives no request and the sink no call.
C5_UnknownSyncType ==
  [][(ops'["sync"] # ops["sync"] /\ CalledSyncType \notin KnownSyncTypes) =>
       /\ pc' = "idle"
       /\ result'.op = "sync"
       /\ result'.status = "thrown"
       /\ remote' = remote
       /\ sink' = sink]_vars

\* sync('bogus') has thrown on a fresh engine
C5_Witness ==
  /\ pc = "idle"
  /\ result.op = "sync"
  /\ result.status = "thrown"
  /\ result.syncType = "bogus"
  /\ result.error.message = "Unknown sync type: bogus"
  /\ remote.calls = 0
  /\ sink.calls = 0

\* a full sync has returned and none of its attempts had failed
CleanFullSync ==
  /\ result.op = "sync"
  /\ result.status = "returned"
  /\ result.syncType = "full"
  /\ result.trace.failedAttempts = 0

\* C6: a full sync without a failed request or upsert returns as products the
\* number of product nodes on the pages the remote served, as variants the
\* number of variant nodes in the batch answers, and leaves metrics.errors as
\* it was.
C6_FullSyncCounts ==
  CleanFullSync =>
    /\ result.value.products = result.trace.fetchedProducts
    /\ result.value.variants = result.trace.fetchedVariants
    /\ metrics.errors = result.trace.startErrors

\* two pages with three products, one product a batch and a chunk
C6_Witness ==
  /\ CleanFullSync
  /\ config.batchSize = 1 /\ config.chunkSize = 1
  /\ result.value.products = 3
  /\ result.value.variants >= 2
  /\ metrics.errors = 0

\* ------------------------------------------------------------- _chunkArray
ChunkReturned == result.op = "_chunkArray" /\ result.status = "returned"

\* the chunks are what the claim describes for this array and chunk size
ChunksOf(chunks, array, n) ==
  /\ Flatten(chunks) = array
  /\ Len(chunks) = (Len(array) + n - 1) \div n
  /\ \A i \in 1..Len(chunks) :
       IF i < Len(chunks) THEN Len(chunks[i]) = n ELSE Len(chunks[i]) \in 1..n

\* C7: for a positive chunk size _chunkArray terminates, and the chunks it
\* returns concatenate to the array, number ceil(length / size), and have
\* length size except the last, which has between 1 and size elements.
C7_ChunkArray ==
  /\ [](ChunkReturned => ChunksOf(result.value, result.array, result.chunkSize))
  /\ (pc = "chunkLoop" ~> ChunkReturned)

\* five elements in chunks of two: 2, 2, 1
C7_Witness ==
  /\ ChunkReturned
  /\ Len(result.array) = 5 /\ result.chunkSize = 2
  /\ Len(result.value) = 3
  /\ Len(result.value[3]) = 1

\* ------------------------------------------------------------ cost cache
IdSet(ids) == {ids[i] : i \in 1..Len(ids)}

\* the same identifiers, each as often in one list as in the other
SameBag(ids, others) ==
  /\ Len(ids) = Len(others)
  /\ \A x \in IdSet(ids) \cup IdSet(others) :
       Cardinality({i \in 1..Len(ids) : ids[i] = x})
         = Cardinality({i \in 1..Len(others) : others[i] = x})

\* the identifier list a cost lookup made in this step was given
LookedUp == IF pc' = "idle" THEN result'.lookup.productIds ELSE frame'.productIds

\* the lookup made in this step is answered from the entry under key
HitOn(key) ==
  /\ pc' = "idle"
  /\ result'.status = "returned"
  /\ result'.value = costCache[key].costData
  /\ metrics'.cacheHits = metrics.cacheHits + 1
  /\ remote' = remote

\* C8 as stated: a lookup whose list holds the same set of identifiers as the
\* list of a cached entry, in any order and with any repetition, is a hit on
\* that entry and sends no request.
C8_SameSetHits ==
  [][ops'["cost"] # ops["cost"] =>
       \A key \in DOMAIN costCache :
         IdSet(costCache[key].ids) = IdSet(LookedUp) => HitOn(key)]_vars

\* C8: a lookup whose list is a reordering of the list of a cached entry (the
\* same identifiers, each as often) is a hit on that entry and sends no request.
C8_ReorderedListHits ==
  [][ops'["cost"] # ops["cost"] =>
       \A key \in DOMAIN costCache :
         SameBag(costCache[key].ids, LookedUp) => HitOn(key)]_vars

\* ['p2', 'p1'] answered from the entry stored for ['p1', 'p2']
C8_Witness ==
  /\ pc = "idle"
  /\ result.op = "cost"
  /\ result.status = "returned"
  /\ result.lookup.hit
  /\ result.lookup.productIds = <<"p2", "p1">>
  /\ \E key \in DOMAIN result.lookup.cacheBefore :
       result.lookup.cacheBefore[key].ids = <<"p1", "p2">>
  /\ remote.calls = result.lookup.startCalls

\* ------------------------------------------------------------ memory guard
\* a direct call of _manageMemory made in this step saw the heap above the threshold
Evicts == ops'["memory"] # ops["memory"] /\ result'.high

\* C11: when _manageMemory sees the heap above memoryThreshold, each of the
\* four cache sizes getMetrics reports is 0 afterwards.
C11_EvictionEmptiesCaches ==
  [][Evicts => \A cache \in DOMAIN CacheStats : CacheStats'[cache] = 0]_vars

\* ------------------------------------------------------------ bulk upserts
\* the last n elements of a sequence
Suffix(seq, n) == SubSeq(seq, Len(seq) - n + 1, Len(seq))

\* C12: when the variant upsert of a full or partial sync fails after the
\* product upsert succeeded, the sync throws, the sink has received the two
\* bulkCreate calls and no other, and it holds the products of the first call.
C12_NoRollback ==
  [][(pc = "upsertVariants" /\ frame.syncType \in {"full", "partial"}
        /\ Len(frame.productBatch) > 0 /\ result'.status = "thrown") =>
       /\ pc' = "idle"
       /\ result'.op = "sync"
       /\ sink'.calls = frame.startSinkCalls + 2
       /\ Len(sink'.products) >= Len(frame.productBatch)
       /\ Suffix(sink'.products, Len(frame.productBatch)) = frame.productBatch
       /\ sink'.variants = sink.variants]_vars

\* a full sync has thrown 'Variant bulkCreate failed' and two products are stored
C12_Witness ==
  /\ pc = "idle"
  /\ result.op = "sync" /\ result.status = "thrown"
  /\ result.syncType = "full"
  /\ result.error.message = "Variant bulkCreate failed"
  /\ Len(sink.products) = 2
  /\ sink.variants = <<>>
  /\ sink.calls = 2

\* ------------------------------------------------------------ sync failures
\* a sync throws to its caller in this step
SyncThrows == result'.op = "sync" /\ result'.status = "thrown" /\ result' # result

\* the error raised by the stage the sync is in when it throws: the error the
\* executor gave up with, the TypeError of reading a page that is not there,
\* the rejection of a bulkCreate, or the error of the switch's default case
StageError ==
  CASE pc = "resume" /\ req.status = "failed" -> CauseOf(Answered(req.log))
    [] pc = "resume" /\ req.status = "ok" -> [message |-> "TypeError"]
    [] pc = "upsertProducts" -> [message |-> "Product bulkCreate failed"]
    [] pc = "upsertVariants" -> [message |-> "Variant bulkCreate failed"]
    [] OTHER -> [message |-> "Unknown sync type: " \o result'.syncType]

\* C13: when a stage of a sync raises an error the retries did not recover,
\* sync adds one to metrics.errors and throws that same error to its caller.
C13_SyncRethrows ==
  [][SyncThrows =>
       /\ metrics'.errors = metrics.errors + 1
       /\ result'.error = StageError
       /\ pc' = "idle"]_vars

\* a partial sync has thrown the error its two failed attempts ended with
C13_Witness ==
  /\ pc = "idle"
  /\ result.op = "sync" /\ result.status = "thrown"
  /\ result.syncType = "partial"
  /\ config.maxRetries = 2
  /\ result.error.message = "API temporarily unavailable"
  /\ metrics.errors = result.trace.startErrors + 3

\* ---------------------------------------------------------------- metrics
Counters ==
  {"apiCalls", "dbQueries", "errors", "cacheHits", "cacheMisses", "totalProducts",
   "totalVariants"}

\* C14: over syncs and cost lookups on one engine none of the seven counters
\* ever decreases, except in reset.
C14_CountersNeverDecrease ==
  [][ops'["reset"] = ops["reset"] => \A c \in Counters : metrics'[c] >= metrics[c]]_vars

\* C16: the metrics in the result of a completed sync are a snapshot: read
\* through that result later, whatever has run since, the counters have the
\* values they had when the sync returned.
C16_ResultMetricsSnapshot ==
  kept.has => KeptMetrics = kept.atReturn

\* ------------------------------------------------------------ sync result
SyncReturned == result.op = "sync" /\ result.status = "returned"

C17_ConfigPositive ==
  pc # "idle" => \A k \in ConfigKeys : config[k] > 0

\* ----------------------------------------- product-category relationships
\* the relationships stored for a product and a category
StoredFor(d, productId, categoryId) ==
  {k \in DOMAIN d.productCategories :
     /\ d.productCategories[k].productId = productId
     /\ d.productCategories[k].categoryId = categoryId}

\* C18: a call of createProductCategoryRelationship for a product and a
\* category that an earlier call has related returns the relationship that call
\* created, with its id, and stores nothing: there is still one relationship
\* for the pair.
C18_RelationshipIdempotent ==
  [][(pc = "findRelationship"
        /\ StoredFor(db, frame.productId, frame.categoryId) # {}) =>
       /\ pc' = "idle"
       /\ result'.status = "returned"
       /\ \A k \in StoredFor(db, frame.productId, frame.categoryId) :
            result'.value = db.productCategories[k]
       /\ db' = db
       /\ Cardinality(StoredFor(db', frame.productId, frame.categoryId)) = 1]_vars

\* the second call for product '123' and category 'c1' has returned the first
\* call's relationship
C18_Witness ==
  /\ pc = "idle"
  /\ ops["relate"] = 0
  /\ result.op = "relate" /\ result.status = "returned"
  /\ result.value.productId = "123" /\ result.value.categoryId = "c1"
  /\ result.value.id = "uuid1"
  /\ db.uuids = 1
  /\ Cardinality(DOMAIN db.productCategories) = 1

\* ------------------------------------------------------------ product pages
\* the engine is fetching product pages and the remote has received an attempt
\* of the page request under way
PageRequestSent ==
  /\ pc \in {"request", "resume"}
  /\ frame.op = "sync"
  /\ req.query.name = "getProducts"
  /\ remote.calls > req.startCalls

\* the cursor the remote receives with a request: the value of the variable
\* $cursor the query text refers to, or the cursor written into the text; null
\* when neither is there
ReceivedCursor(sent) ==
  IF "cursor" \in DOMAIN sent.variables THEN sent.variables.cursor
  ELSE IF "after" \in DOMAIN sent.query THEN sent.query.after
  ELSE "null"

\* C19: the request for the first page carries a null cursor, and the request
\* for each later page carries the cursor of the last edge of the page before.
C19_CursorSent ==
  PageRequestSent => ReceivedCursor(remote.last) = frame.cursor

\* a request for product pages has settled with a response
PageArrived ==
  /\ pc = "resume"
  /\ frame.op = "sync"
  /\ req.query.name = "getProducts"
  /\ req.status = "ok"
  /\ req.response.data.kind = "products"

NodesOf(data) == [i \in 1..Len(data.edges) |-> data.edges[i].node]

\* C20: when a page request has succeeded, _fetchAllProductsOptimized goes on
\* to another page if the page says hasNextPage, and otherwise stops and
\* returns the nodes of all pages fetched, in the order fetched.
C20_StopsAtLastPage ==
  [][PageArrived =>
       IF req.response.data.hasNextPage
       THEN /\ pc' = "request"
            /\ req'.query.name = "getProducts"
            /\ frame'.products = frame.products \o NodesOf(req.response.data)
       ELSE /\ pc' = "fetchVariants"
            /\ frame'.products = frame.products \o NodesOf(req.response.data)]_vars

\* ---------------------------------------------------------- variant batches
\* the loop of _fetchVariantsByProductIds has been left
VariantFetchReturned ==
  /\ frame.op = "sync"
  /\ pc \in {"processProducts", "processVariants", "upsertProducts", "upsertVariants"}

CeilDiv(n, d) == (n + d - 1) \div d

\* a batch request is under way or has just settled
InBatchRequest ==
  /\ pc \in {"request", "resume"}
  /\ frame.op = "sync"
  /\ req.query.name = "getVariantsBatch"

\* C21: _fetchVariantsByProductIds issues ceil(|identifiers| / batchSize) logical
\* requests, one for each contiguous group of at most batchSize identifiers, in
\* list order and one after the other; none for an empty list, whose result is
\* empty.
C21_VariantBatches ==
  /\ VariantFetchReturned =>
       /\ Len(frame.batches) = CeilDiv(Len(frame.variantIds), config.batchSize)
       /\ Flatten(frame.batches) = frame.variantIds
       /\ \A i \in 1..Len(frame.batches) :
            /\ Len(frame.batches[i]) <= config.batchSize
            /\ i < Len(frame.batches) => Len(frame.batches[i]) = config.batchSize
       /\ frame.variantIds = <<>> => frame.variants = <<>>
  /\ InBatchRequest =>
       /\ frame.batches # <<>>
       /\ req.query.filter = frame.batches[Len(frame.batches)]
       /\ \E n \in 0..Len(frame.variantIds) :
            Flatten(frame.batches) = SubSeq(frame.variantIds, 1, n)

\* a fetch over three identifiers in batches of two has returned
C21_Witness ==
  /\ VariantFetchReturned
  /\ Len(frame.variantIds) = 3
  /\ config.batchSize = 2
  /\ Len(frame.batches) = 2

\* ------------------------------------------------- the rate limiter's gate
\* a step in which _enforceRateLimit is called
EnforceCalled == pc = "idle" /\ ops'["limit"] # ops["limit"]

HeadersRead == pc = "idle" /\ ops'["headers"] # ops["headers"]

ErrorsAnswered ==
  /\ remote'.calls = remote.calls + 1
  /\ Answered(req'.log).kind = "response"
  /\ Len(Answered(req'.log).errors) > 0

\* the time at which the remote is called: after the gate of the attempt
GateTime ==
  IF rateLimitState.remaining <= 1 /\ now < rateLimitState.resetTime
  THEN rateLimitState.resetTime
  ELSE now

\* the rate-limit state once these headers have been read at time t
AfterHeaders(rl, headers, t) ==
  [remaining |-> IF headers.hasLimit THEN headers.max - headers.current ELSE rl.remaining,
   bucketSize |-> IF headers.hasLimit THEN Str(headers.max) ELSE rl.bucketSize,
   resetTime |-> IF headers.hasRetryAfter THEN t + (headers.retryAfter * 1000)
                 ELSE rl.resetTime]

\* C24 as stated: a response with a non-empty errors list is a failed attempt,
\* counted in errors, retried with backoff and never returned, and the
\* rate-limit state is updated only from responses returned as successes.
C24_ErrorsListFails ==
  [][ErrorsAnswered =>
       /\ metrics'.errors = metrics.errors + 1
       /\ req'.status # "ok"
       /\ rateLimitState' = rateLimitState]_vars

\* C24: a response with a non-empty errors list is a failed attempt: it adds
\* one to errors, is followed by the backoff sleep and another attempt unless
\* it was the last attempt allowed, whose error is then thrown, and is never
\* returned to the caller. The rate-limit state is updated from the headers of
\* every response that has headers, such a response included.
C24_ErrorsListFailsHeadersRead ==
  [][/\ ErrorsAnswered =>
          /\ metrics'.errors = metrics.errors + 1
          /\ req'.status # "ok"
          /\ IF req.attempt = config.maxRetries
             THEN /\ pc' = "resume"
                  /\ req'.status = "failed"
                  /\ req'.lastError.message
                       = "GraphQL errors: " \o Answered(req'.log).errors[1]
                  /\ now' = GateTime
             ELSE /\ pc' = "request"
                  /\ req'.attempt = req.attempt + 1
                  /\ now' = GateTime
                            + Min(config.baseDelayMs * Pow2(req.attempt - 1), config.maxDelayMs)
     /\ (remote'.calls = remote.calls + 1 /\ Answered(req'.log).kind = "response") =>
          rateLimitState' =
            IF Answered(req'.log).hasHeaders
            THEN AfterHeaders(rateLimitState, Answered(req'.log).headers, GateTime)
            ELSE rateLimitState
     /\ (ExecuteSettles /\ result'.status = "returned") =>
          /\ result'.value.kind = "response"
          /\ Len(result'.value.errors) = 0]_vars

\* a response with an errors list and headers was the first of two attempts:
\* it is counted, the headers are read, and the second attempt is waiting
C24_Witness ==
  /\ pc = "request"
  /\ frame.op = "execute"
  /\ req.attempt = 2
  /\ Len(req.log) = 1
  /\ Answered(req.log).kind = "response"
  /\ Len(Answered(req.log).errors) > 0
  /\ Answered(req.log).hasHeaders
  /\ metrics.errors = 1
  /\ rateLimitState.remaining = 1

\* ------------------------------------------------------- cost lookups counted
\* a step in which a cost lookup is started
LookupStarted == pc = "idle" /\ ops'["cost"] # ops["cost"]

\* the entries of the cache that were stored for a reordering of the list
\* looked up in this step
EntriesFor == {key \in DOMAIN costCache : SameBag(costCache[key].ids, LookedUp)}

\* a cost lookup's request has been answered: the lookup is about to return
LookupAnswered == pc = "resume" /\ frame.op = "cost" /\ req.status = "ok"

ResetCalled == pc = "idle" /\ ops'["reset"] # ops["reset"]

\* C25: a cost lookup whose key is cached adds one to cacheHits, returns the
\* stored value and sends nothing; one whose key is absent adds one to
\* cacheMisses and makes one logical request, whose result it stores under the
\* key and returns. Each lookup started adds one to cacheHits + cacheMisses,
\* nothing else changes them but reset, which zeroes both: their sum is the
\* number of lookups started since construction or the last reset.
C25_HitsAndMisses ==
  [][/\ LookupStarted =>
          /\ metrics'.cacheHits + metrics'.cacheMisses
               = metrics.cacheHits + metrics.cacheMisses + 1
          /\ IF EntriesFor # {}
             THEN /\ \A key \in EntriesFor : HitOn(key)
                  /\ metrics'.cacheMisses = metrics.cacheMisses
                  /\ costCache' = costCache
             ELSE /\ metrics'.cacheMisses = metrics.cacheMisses + 1
                  /\ pc' = "request"
                  /\ req'.query.name = "getCostData"
                  /\ req'.startCalls = remote.calls
                  /\ remote' = remote
     /\ LookupAnswered =>
          /\ req.startCalls = frame.startCalls
          /\ result'.status = "returned"
          /\ result'.value = _extractCostDataFromResponse(req.response.data)
          /\ frame.cacheKey \in DOMAIN costCache'
          /\ costCache'[frame.cacheKey].costData = result'.value
          /\ \A key \in DOMAIN costCache : costCache'[key] = costCache[key]
     /\ ResetCalled => metrics'.cacheHits = 0 /\ metrics'.cacheMisses = 0
     /\ ~(LookupStarted \/ ResetCalled) =>
          /\ metrics'.cacheHits = metrics.cacheHits
          /\ metrics'.cacheMisses = metrics.cacheMisses]_vars

\* a miss that fetched and stored, then a hit on the entry: one of each counted
C25_Witness ==
  /\ pc = "idle"
  /\ result.op = "cost"
  /\ result.status = "returned"
  /\ result.lookup.hit
  /\ metrics.cacheHits = 1
  /\ metrics.cacheMisses = 1
  /\ metrics.apiCalls = 1
  /\ result.value = costCache[result.lookup.cacheKey].costData

\* ------------------------------------------------------------- bulk upserts
\* what a bulk upsert called with this batch does in the step taken: nothing
\* for an empty batch; else one call of the sink, counted in dbQueries if it
\* succeeds (went on: the caller continues) and thrown on if it fails
UpsertDoes(batch, wentOn) ==
  IF Len(batch) = 0
  THEN /\ sink' = sink
       /\ metrics'.dbQueries = metrics.dbQueries
       /\ wentOn
  ELSE /\ sink'.calls = sink.calls + 1
       /\ IF wentOn
          THEN metrics'.dbQueries = metrics.dbQueries + 1
          ELSE /\ metrics'.dbQueries = metrics.dbQueries
               /\ result'.status = "thrown"
               /\ sink'.products = sink.products
               /\ sink'.variants = sink.variants

\* C26: _bulkUpsertProducts and _bulkUpsertVariants with an empty batch make no
\* sink call and leave dbQueries alone; with a non-empty batch they make one
\* sink call, and dbQueries grows by one only if it succeeds: if it fails the
\* error propagates and dbQueries is unchanged.
C26_BulkUpserts ==
  [][/\ pc = "upsertProducts" => UpsertDoes(frame.productBatch, pc' = "upsertVariants")
     /\ pc = "upsertVariants" => UpsertDoes(frame.variantBatch, result'.status = "returned")]_vars

\* a sync of two products without variants has returned: one sink call, one
\* query counted, none for the empty variant batch
C26_Witness ==
  /\ pc = "idle"
  /\ result.op = "sync"
  /\ result.status = "returned"
  /\ result.value.products = 2
  /\ result.value.variants = 0
  /\ sink.calls = 1
  /\ metrics.dbQueries = 1

\* ------------------------------------------------------ the stages of a sync
\* the stage of _fullSync the control is in: 1 fetching product pages,
\* 2 fetching variant batches, 3 processing products, 4 processing variants,
\* 5 upserting products, 6 upserting variants
StageAt(where, query) ==
  CASE where \in {"request", "resume"} /\ query.name = "getProducts" -> 1
    [] where \in {"request", "resume"} /\ query.name # "getProducts" -> 2
    [] where \in {"fetchVariants", "variantLoop"} -> 2
    [] where = "processProducts" -> 3
    [] where = "processVariants" -> 4
    [] where = "upsertProducts" -> 5
    [] where = "upsertVariants" -> 6
    [] OTHER -> 0

InFullSync == frame.op = "sync" /\ frame.syncType = "full"

\* C27: within a full sync the stages run one after the other in the order:
\* product pages, variant batches, process products, process variants, upsert
\* products, upsert variants. The remote is called in the first two only, the
\* sink in the last two only: no sink call comes before the last remote fetch,
\* and a sync whose fetch runs out of retries has written nothing.
C27_StageOrder ==
  [][InFullSync =>
       LET stage == StageAt(pc, req.query)
           next == StageAt(pc', req'.query)
       IN /\ stage \in 1..6
          /\ pc' # "idle" => next \in {stage, stage + 1}
          /\ (pc' = "idle" /\ result'.status = "returned") => stage = 6
          /\ remote' # remote => stage \in {1, 2}
          /\ sink' # sink => stage \in {5, 6}
          /\ stage \in 1..4 => sink.calls = frame.startSinkCalls
          /\ (pc' # "idle" /\ frame'.productBatch # frame.productBatch) => stage = 3
          /\ (pc' # "idle" /\ frame'.variantBatch # frame.variantBatch) => stage = 4
          /\ (pc = "resume" /\ req.status = "failed") =>
               /\ result'.status = "thrown"
               /\ sink' = sink
               /\ sink.calls = frame.startSinkCalls]_vars

\* a full sync has gone through all six stages: pages and batches fetched,
\* products and variants stored
C27_Witness ==
  /\ pc = "idle"
  /\ result.op = "sync"
  /\ result.status = "returned"
  /\ result.syncType = "full"
  /\ remote.calls >= 2
  /\ Len(sink.products) > 0
  /\ Len(sink.variants) > 0
  /\ sink.calls = 2

\* --------------------------------------------------- what reaches the sink
\* a record has the shape _processProductChunk gives a product
IsProcessedProduct(record) == DOMAIN record = {"id", "product_type"}

\* a record has the shape _processVariantChunk gives a variant: the keys of the
\* sink's columns and the prices parsed to numbers
IsProcessedVariant(record) ==
  /\ DOMAIN record = {"id", "product_id", "price", "compare_at_price"}
  /\ record.price.t = "number"

\* C28: in every sync mode every record handed to the persistence sink is a
\* processed record: the output of the chunk transform; none is a raw remote
\* record and none is missing (null).
C28_SinkGetsProcessedRecords ==
  /\ \A i \in 1..Len(sink.products) : IsProcessedProduct(sink.products[i])
  /\ \A i \in 1..Len(sink.variants) : IsProcessedVariant(sink.variants[i])

\* ------------------------------------------------------- processing in chunks
\* a direct call of _processProductsInChunks or _processVariantsInChunks has returned
ProcessReturned == pc = "idle" /\ result.op = "process" /\ result.status = "returned"

\* C29: _processProductsInChunks and _processVariantsInChunks return one
\* processed record for each input record, in input order and with its
\* identifier, and run the memory check once after each chunk:
\* ceil(len(records) / chunkSize) times.
C29_ProcessInChunks ==
  ProcessReturned =>
    /\ Len(result.value) = Len(result.input)
    /\ \A i \in 1..Len(result.input) :
         /\ result.value[i].id = result.input[i].id
         /\ IF result.kind = "products"
            THEN IsProcessedProduct(result.value[i])
            ELSE IsProcessedVariant(result.value[i])
    /\ Len(result.log) = 2 * CeilDiv(Len(result.input), config.chunkSize)
    /\ \A i \in 1..Len(result.log) :
         result.log[i] = IF i % 2 = 1 THEN "chunk" ELSE "_manageMemory"

\* three records in chunks of two: three processed records, two memory checks
C29_Witness ==
  /\ ProcessReturned
  /\ config.chunkSize = 2
  /\ Len(result.input) = 3
  /\ Len(result.value) = 3
  /\ result.input[1].id # result.input[2].id
  /\ Len(result.log) = 4

\* -------------------------------------------------------------------- reset
\* C30: reset() sets every metrics counter to zero and empties the product,
\* variant and cost caches; it leaves the rate-limit state (remaining,
\* bucketSize, resetTime) and the configuration as they were.
C30_Reset ==
  [][ResetCalled =>
       /\ \A counter \in DOMAIN metrics' : metrics'[counter] = 0
       /\ DOMAIN metrics' = DOMAIN metrics
       /\ productCache' = {}
       /\ variantCache' = {}
       /\ DOMAIN costCache' = {}
       /\ rateLimitState' = rateLimitState
       /\ config' = config]_vars

\* reset has emptied a product cache and a cost cache that held an entry each,
\* on an engine whose rate-limit state a response had changed
C30_Witness ==
  /\ pc = "idle"
  /\ result.op = "reset"
  /\ result.before.productCache = 1
  /\ result.before.costCache = 1
  /\ CacheStats.productCache = 0
  /\ CacheStats.costCache = 0
  /\ metrics = ZeroMetrics
  /\ rateLimitState.remaining = 5
  /\ remote.calls > 0

\* ---------------------------------------------------------- overlapping syncs
\* the timers an invocation has started and not ended
OwnedBy(i) == IF InvOf(i).at \in {"fetch", "upsert"} THEN InvOf(i).owned ELSE {}

\* the invocation that takes this step
StepOf(i) == frame'.op = "overlap" /\ frame'.inv[i] # InvOf(i)

\* C31: when sync invocations overlap on one engine, each that completes
\* normally returns a defined duration, and no invocation's start or end of a
\* timer replaces or removes a timer that belongs to another invocation.
C31_OverlappingSyncTimers ==
  [][\A i \in Invocations :
       StepOf(i) =>
         /\ frame'.inv[i].at = "returned" => frame'.inv[i].hasDuration
         /\ \A j \in Invocations \ {i} :
              /\ OwnedBy(j) \subseteq DOMAIN timers'
              /\ OwnedBy(j) \cap (DOMAIN timers' \ DOMAIN timers) = {}
              /\ frame'.inv[i].at = "fetch" => OwnedBy(j) \cap frame'.inv[i].owned = {}]_vars

\* -------------------------------------------------------- overlapping lookups
\* the overlapping lookups that have been started
Started == {i \in Invocations : InvOf(i).at # "none"}

\* C32: under any interleaving of overlapping cost lookups the cache holds at
\* most one entry for a key, cacheHits + cacheMisses is the number of lookups
\* started, and for each key at most one remote request is sent (no eviction
\* and no reset take place here).
C32_OverlappingLookups ==
  /\ metrics.cacheHits + metrics.cacheMisses = Cardinality(Started)
  /\ \A key \in DOMAIN costCache : CacheKey(costCache[key].ids) = key
  /\ \A i, j \in Started :
       (i # j /\ InvOf(i).cacheKey = InvOf(j).cacheKey) => ~(InvOf(i).sent /\ InvOf(j).sent)

\* ------------------------------------------------------------- active timers
\* C33: after a sync has returned or thrown, the performance monitor holds no
\* active timer that the invocation started: the number of active timers is
\* what it was before the call, whichever stage failed.
C33_NoTimerLeftRunning ==
  (pc = "idle" /\ result.op = "sync") =>
    Cardinality(DOMAIN timers) = result.trace.activeTimers

\* ------------------------------------------------------- failed cost lookups
\* the request of a cost lookup has failed for good
LookupFailed == pc = "resume" /\ frame.op = "cost" /\ req.status = "failed"

\* the key of the lookup started in this step
LookupKey == IF pc' = "idle" THEN result'.lookup.cacheKey ELSE frame'.cacheKey

\* C34: when the request of a cost lookup fails terminally the error reaches
\* the caller, nothing is stored under the key and the entries there are stay
\* as they are; the next lookup of that key is a miss again and queries the
\* remote.
C34_FailedLookup ==
  [][/\ LookupFailed =>
          /\ result'.status = "thrown"
          /\ result'.error = CauseOf(Answered(req.log))
          /\ costCache' = costCache
          /\ frame.cacheKey \notin DOMAIN costCache'
     /\ (LookupStarted /\ result.op = "cost" /\ result.status = "thrown"
           /\ LookupKey = result.lookup.cacheKey) =>
          /\ metrics'.cacheMisses = metrics.cacheMisses + 1
          /\ pc' = "request"
          /\ req'.query.name = "getCostData"]_vars

\* a lookup failed and the lookup of the same key that follows has missed
\* again and waits for the remote
C34_Witness ==
  /\ pc = "request"
  /\ frame.op = "cost"
  /\ frame.afterFailureOf = frame.cacheKey
  /\ ~frame.hit
  /\ metrics.cacheMisses = 2
  /\ req.query.name = "getCostData"

\* ------------------------------------------------------------------ batchSync
BatchReturned == pc = "idle" /\ result.op = "batchSync" /\ result.status = "returned"

\* how often an identifier occurs in a list of results
Occurrences(list, id) == Cardinality({k \in 1..Len(list) : list[k] = id})

\* C35: whenever batchSync returns, for any product list, batchSize and
\* maxRetries, every input product is exactly once in success or failed, never
\* in both and never in neither; it is in failed exactly when maxRetries
\* attempts in a row failed; no product was attempted after its success; and
\* skipped is empty.
C35_BatchSyncResults ==
  BatchReturned =>
    /\ \A p \in 1..Len(result.products) :
         LET id == result.products[p]
         IN /\ Occurrences(result.value.success, id)
                 + Occurrences(result.value.failed, id) = 1
            /\ Occurrences(result.value.failed, id) = 1
                 <=> result.failures[p] = result.maxRetries
            /\ Occurrences(result.value.success, id) = 1
                 => result.attempts[p] = result.failures[p] + 1
    /\ result.value.skipped = <<>>

\* a step in which an upsert attempt for product p starts
AttemptStarts(p) ==
  /\ frame.op = "batchSync"
  /\ frame'.op = "batchSync"
  /\ p \in DOMAIN frame.attempts
  /\ frame'.attempts[p] = frame.attempts[p] + 1

\* product p has reached its final outcome
Settled(fr, p) ==
  Occurrences(fr.success, fr.products[p]) + Occurrences(fr.failed, fr.products[p]) = 1

\* the batch (0-based) a product belongs to
BatchNo(p, batchSize) == (p - 1) \div batchSize

\* C36: batchSync takes the batches one after the other: no attempt for a
\* product of a later batch starts before every product of the batches before
\* has its final outcome, while attempts and waits within a batch interleave;
\* for batchSize >= 1 and a finite list the call returns.
C36_BatchesInSequence ==
  /\ [][\A p \in 1..MaxBatchProducts :
          AttemptStarts(p) =>
            \A q \in 1..Len(frame.products) :
              BatchNo(q, frame.batchSize) < BatchNo(p, frame.batchSize)
                => Settled(frame, q)]_vars
  /\ ((frame.op = "batchSync" /\ frame.batchSize >= 1) ~> BatchReturned)

\* two products of one batch both have an attempt under way, one of them its
\* second, while the product of the next batch has not been attempted
C36_Witness ==
  /\ pc = "batch"
  /\ frame.batchSize = 2
  /\ Len(frame.products) = 3
  /\ DOMAIN frame.tasks = {1, 2}
  /\ frame.tasks[1].at = "attempting"
  /\ frame.tasks[2].at = "attempting"
  /\ frame.attempts = <<1, 2, 0>>

\* ----------------------------------------------- upsertMainProductOptimized
\* a step in which the call settles after the named step has failed
UpsertEndsAfterFailure(steps) ==
  /\ pc = "upsert"
  /\ pc' = "idle"
  /\ result'.failedAt \in steps

\* C37: a failure while the product-type or category relationships are made
\* is not fatal: the call returns {id, created} of the product that was created
\* or updated; a failure of the find-or-create or of the update of the product
\* is thrown to the caller.
C37_RelationshipFailureNonFatal ==
  [][/\ UpsertEndsAfterFailure({"productType", "typeUpdate", "category"}) =>
          /\ result'.status = "returned"
          /\ frame.shopify_product_id \in DOMAIN db'.table
          /\ result'.value = [id |-> db'.table[frame.shopify_product_id].id,
                              created |-> frame.created]
     /\ UpsertEndsAfterFailure({"findOrCreate", "update"}) =>
          /\ result'.status = "thrown"
          /\ result'.error = UpsertError(frame.step)
          /\ db' = db]_vars

\* a product found and updated whose category relationships then fail: the
\* call has returned its id with created false
C37_Witness ==
  /\ pc = "idle"
  /\ result.op = "upsert"
  /\ result.status = "returned"
  /\ result.failedAt = "category"
  /\ result.value.created = FALSE
  /\ db.table[result.shopify_product_id].updates = 1

\* ------------------------------------------------------------ Product model
\* C38: Product.create(data) for an identifier not yet in the store runs
\* beforeCreate, stores the product and runs afterCreate, so that findById of
\* the identifier then returns the product; Product.update on a stored product
\* runs the update hooks and keeps its identifier.
C38_CreateAndUpdate ==
  /\ (result.op = "create" /\ ~result.wasStored /\ result.status = "returned") =>
       /\ result.hooks = <<"beforeCreate", "afterCreate">>
       /\ findProduct(db, result.id).id = result.id
  /\ (result.op = "update" /\ result.wasStored) =>
       /\ result.status = "returned"
       /\ result.hooks = <<"beforeUpdate", "afterUpdate">>
       /\ db.products[result.id].id = result.id

====
